---- MODULE Spec2Model ----
(***************************************************************************)
(* A state-machine model of the chat-router hub (store, service, HTTP      *)
(* adapter, stream adapter) and of the Telegram plugin's outbound-delivery *)
(* adapter (ChatRouterWsClient).                                           *)
(*                                                                         *)
(* The hub is a single-threaded Node process: a handler runs to completion *)
(* before any other event of that process is dispatched.  The model keeps  *)
(* the position inside the one synchronous service call in `pc`; only a    *)
(* process crash can interleave with it.                                   *)
(***************************************************************************)
EXTENDS Integers, Sequences, FiniteSets, TLC

\* ------------------------------------------------------------------------
\* Bounds of the model
\* ------------------------------------------------------------------------

\* Timeline rows the store may hold before the model stops ingesting.
MaxIngests == 3

\* Responses one service instance mints ids for before the model stops
\* recording responses on it.
MaxMinted == 2

\* Crashes of the daemon over a run.
MaxCrashes == 1

\* Stream connections the hub accepts over a run.
MaxClients == 2

\* Client-side sockets of the plugin that exist at one time.
MaxSockets == 2

\* setTimeout timers of the plugin pending at one time.
MaxTimers == 2

\* Frames the hub pushes to the plugin in one run.
MaxPushes == 2

\* Requests of a run of the stream specification.
MaxBroadcasts == 2

\* Frames the stream clients send to the hub in one run.
MaxRequests == 3
MaxTextLen == 5
MaxCap == 3

\* The delay of the reconnect timer, in ms.
ReconnectDelayMs == 3000

\* Telegram's maximum message length, the default cap of splitMessage.
TELEGRAM_MAX_LENGTH == 4096

\* ------------------------------------------------------------------------
\* Values
\* ------------------------------------------------------------------------

\* null / undefined of a string-valued field.
NULL == "NULL"

\* Values of a JSON body that are not strings, as a field of a message
\* holds them.
JsNumber(n) == "#" \o ToString(n)

JsFalse == "#false"

JsTrue == "#true"

NonStrings == {NULL, JsNumber(0), JsNumber(5), JsFalse, JsTrue}

\* JavaScript falsiness of a field: `!x`.
Falsy(x) == x \in {NULL, "", JsNumber(0), JsFalse}

\* The conversations the inputs address: (platform, platformChatId).
Keys == {<<"telegram", "c1">>, <<"telegram", "c2">>, <<"discord", "c1">>}

\* A well-formed POST /api/messages body.  An absent timestamp is <<>>, a
\* present one <<n>>.
InboundMessage(platform, chatId, chatType, text) ==
    [platform          |-> platform,
     platformMessageId |-> "m1",
     platformChatId    |-> chatId,
     platformChatType  |-> chatType,
     senderName        |-> "Alice",
     senderId          |-> "u1",
     text              |-> text,
     timestamp         |-> <<1700>>]

\* A POST /api/responses body.
OutboundRequest(platform, chatId, text) ==
    [platform |-> platform, platformChatId |-> chatId, text |-> text]

BaseInbound == InboundMessage("telegram", "c1", "private", "hi")

\* ------------------------------------------------------------------------
\* Store (SQLite through better-sqlite3)
\* ------------------------------------------------------------------------

\* A database: the timeline table in rowid order, the conversations table,
\* and the AUTOINCREMENT high-water mark of the timeline (sqlite_sequence).
EmptyDb == [timeline |-> <<>>, conversations |-> {}, seq |-> 0]

\* The rowid an INSERT into the AUTOINCREMENT table is given.
NextRowId_count(d) == Len(d.timeline)

NextRowId(d) == d.seq + 1

\* result.lastInsertRowid after the INSERT.
lastInsertRowid_stale(d) == d.seq - 1

lastInsertRowid(d) == d.seq

\* The timeline row insertTimelineEntry writes for `entry` under rowid `id`.
TimelineRow(entry, id) ==
    [id                |-> id,
     direction         |-> entry.direction,
     platform          |-> entry.platform,
     platformMessageId |-> entry.platformMessageId,
     platformChatId    |-> entry.platformChatId,
     platformChatType  |-> entry.platformChatType,
     senderName        |-> entry.senderName,
     text              |-> entry.text]

\* insertTimelineEntry: the database after the INSERT.
insertTimelineEntry(d, entry) ==
    LET id == NextRowId(d)
    IN  [d EXCEPT !.timeline = Append(@, TimelineRow(entry, id)), !.seq = id]

\* getConversation: the rows of `conversations` with the key (none or one).
getConversation(d, platform, chatId) ==
    {c \in d.conversations : c.platform = platform /\ c.platformChatId = chatId}

\* message_count written by the ON CONFLICT branch of the upsert.
ConflictCount_reset(n) == 1

ConflictCount(n) == n + 1

\* platform_chat_type written by the ON CONFLICT branch: CASE WHEN @chatType
\* IS NOT NULL THEN @chatType ELSE platform_chat_type END.
conflictChatType_overwrite(chatType, stored) == chatType

conflictChatType(chatType, stored) ==
    IF chatType # NULL THEN chatType ELSE stored

\* label written by the ON CONFLICT branch: label = @label.
conflictLabel_keep(label, stored) == stored

conflictLabel(label, stored) == label

\* upsertConversation: INSERT ... ON CONFLICT (platform, platform_chat_id)
\* DO UPDATE.
upsertConversation(d, platform, chatId, label, chatType) ==
    LET existing == getConversation(d, platform, chatId)
    IN  IF existing = {}
        THEN [d EXCEPT !.conversations = @ \cup
                 {[platform         |-> platform,
                   platformChatId   |-> chatId,
                   platformChatType |-> chatType,
                   label            |-> label,
                   messageCount     |-> 1]}]
        ELSE LET c == CHOOSE x \in existing : TRUE
             IN  [d EXCEPT !.conversations = (@ \ {c}) \cup
                     {[c EXCEPT
                         !.label = conflictLabel(label, @),
                         !.messageCount = ConflictCount(@),
                         !.platformChatType = conflictChatType(chatType, @)]}]

\* What the database file holds after a statement of ingestTransaction has
\* run: the statements run inside db.transaction, so nothing reaches the
\* committed file contents before COMMIT.
DurableAfterStatement_autocommit(committed, written) == written

DurableAfterStatement(committed, written) == committed

\* The rows of a sequence of rows, as a set.
RowSet(rows) == {rows[i] : i \in 1..Len(rows)}

\* ORDER BY id DESC over a set of rows.
RECURSIVE OrderByIdDesc(_)
OrderByIdDesc(S) ==
    IF S = {} THEN <<>>
    ELSE LET top == CHOOSE r \in S : \A x \in S : x.id <= r.id
         IN  <<top>> \o OrderByIdDesc(S \ {top})

\* LIMIT ?: the first n rows; SQLite reads a negative LIMIT as no limit.
sqlLimit(rows, n) ==
    IF n < 0 THEN rows
    ELSE SubSeq(rows, 1, IF n < Len(rows) THEN n ELSE Len(rows))

\* The default of the `limit` parameter of the store's queries.
DefaultLimit == 50

\* A parameter left undefined is <<>>, a given number n is <<n>>.
limitOrDefault(limit) == IF limit = <<>> THEN DefaultLimit ELSE limit[1]

\* The conditions id > ? and id < ? are added for the cursors given.
cursorMatch(row, after, before) ==
    /\ after # <<>> => row.id > after[1]
    /\ before # <<>> => row.id < before[1]

\* store.getTimeline(platform, platformChatId, after, before, limit)
getTimeline(d, platform, chatId, after, before, limit) ==
    sqlLimit(OrderByIdDesc({r \in RowSet(d.timeline) :
                               /\ r.platform = platform
                               /\ r.platformChatId = chatId
                               /\ cursorMatch(r, after, before)}),
             limitOrDefault(limit))

\* store.getUnifiedTimeline(after, before, limit)
getUnifiedTimeline(d, after, before, limit) ==
    sqlLimit(OrderByIdDesc({r \in RowSet(d.timeline) :
                               cursorMatch(r, after, before)}),
             limitOrDefault(limit))

\* ------------------------------------------------------------------------
\* Service
\* ------------------------------------------------------------------------

\* validateInbound: "ok", or the message of the error it throws.
validateInbound(msg) ==
    IF Falsy(msg.platform) THEN "ingestMessage: platform is required"
    ELSE IF Falsy(msg.platformMessageId)
        THEN "ingestMessage: platformMessageId is required"
    ELSE IF Falsy(msg.platformChatId)
        THEN "ingestMessage: platformChatId is required"
    ELSE IF Falsy(msg.senderName) THEN "ingestMessage: senderName is required"
    ELSE IF Falsy(msg.senderId) THEN "ingestMessage: senderId is required"
    ELSE IF msg.timestamp = <<>> THEN "ingestMessage: timestamp is required"
    ELSE "ok"

\* The checks at the head of recordResponse.
validateResponse(params) ==
    IF Falsy(params.platform) THEN "recordResponse: platform is required"
    ELSE IF Falsy(params.platformChatId)
        THEN "recordResponse: platformChatId is required"
    ELSE IF Falsy(params.text) THEN "recordResponse: text is required"
    ELSE "ok"

\* entryData of ingestMessage.
inboundEntryData(msg) ==
    [direction         |-> "in",
     platform          |-> msg.platform,
     platformMessageId |-> msg.platformMessageId,
     platformChatId    |-> msg.platformChatId,
     platformChatType  |-> msg.platformChatType,
     senderName        |-> msg.senderName,
     text              |-> msg.text]

\* entryData of recordResponse; `n` is the counter after its increment.
outboundEntryData_fixedId(params, n) ==
    [direction         |-> "out",
     platform          |-> params.platform,
     platformMessageId |-> "router-1",
     platformChatId    |-> params.platformChatId,
     platformChatType  |-> NULL,
     senderName        |-> "System",
     text              |-> params.text]

outboundEntryData(params, n) ==
    [direction         |-> "out",
     platform          |-> params.platform,
     platformMessageId |-> "router-" \o ToString(n),
     platformChatId    |-> params.platformChatId,
     platformChatType  |-> NULL,
     senderName        |-> "System",
     text              |-> params.text]

\* ------------------------------------------------------------------------
\* HTTP adapter and external trigger
\* ------------------------------------------------------------------------

\* triggerAcsJob gets past its two early returns and issues the fetch.
triggerInvoked_anyText(entry) == entry.direction = "in"

triggerInvoked(entry) == entry.direction = "in" /\ ~Falsy(entry.text)

\* The AcsTriggerConfig the daemon builds when ACS_JOB_NAME is set.
AcsConfig ==
    [acsBaseUrl |-> "http://127.0.0.1:8377",
     jobName    |-> "agent",
     routerUrl  |-> "http://localhost:3100"]

\* The URL triggerAcsJob posts to.
triggerUrl_noJob(config) == config.acsBaseUrl \o "/api/jobs/trigger"

triggerUrl(config) ==
    config.acsBaseUrl \o "/api/jobs/" \o config.jobName \o "/trigger"

\* How the promise of triggerAcsJob settles once its fetch has ended with
\* `outcome`: the try block returns true after a 2xx answer whose body
\* parses and false after a non-2xx one; the catch returns false for a
\* rejected fetch and for a body that does not parse.
triggerAcsJob_rethrows(outcome) ==
    IF outcome = "ok" THEN "true"
    ELSE IF outcome = "non2xx" THEN "false"
    ELSE "throws"

triggerAcsJob(outcome) == IF outcome = "ok" THEN "true" ELSE "false"

\* Where the POST /messages handler stands once ingestMessage has returned
\* `entry`: suspended on `await triggerAcsJob(...)` while the fetch is
\* outstanding, or past res.status(201).json(entry).
PostMessagesAfterIngest_noAwait(cfg, entry) == "responded"

PostMessagesAfterIngest(cfg, entry) ==
    IF cfg /\ triggerInvoked(entry) THEN "awaiting" ELSE "responded"

\* ------------------------------------------------------------------------
\* Stream adapter
\* ------------------------------------------------------------------------

Conns == 1..MaxClients

\* The clients the broadcast listener calls send() on: it walks wss.clients
\* in insertion order and skips every socket whose readyState is not OPEN.
\* A send on an OPEN socket whose transport has failed does not throw (the
\* failure surfaces later as that socket's 'error' event), so the walk goes
\* on regardless of `link`.
BroadcastTargets_returnOnClosed(clients, state, link) ==
    {clients[i] : i \in {j \in 1..Len(clients) :
                            \A k \in 1..j : state[clients[k]] = "open"}}

BroadcastTargets_abortOnFailure(clients, state, link) ==
    {clients[i] : i \in {j \in 1..Len(clients) :
                            /\ state[clients[j]] = "open"
                            /\ \A k \in 1..(j - 1) :
                                  state[clients[k]] = "open" => link[clients[k]]}}

BroadcastTargets(clients, state, link) ==
    {clients[i] : i \in {j \in 1..Len(clients) : state[clients[j]] = "open"}}

\* client.send(payload): the frame joins the socket's outgoing stream.
wsSend_unshift(queue, frame) == <<frame>> \o queue

wsSend(queue, frame) == Append(queue, frame)

\* ------------------------------------------------------------------------
\* State of the hub
\* ------------------------------------------------------------------------

VARIABLES
    up,                  \* the daemon process is running
    db,                  \* the database as the open connection sees it
    durable,             \* the committed contents of the database file
    pc,                  \* position inside the running service call
    call,                \* that call's route, entryData, label and rowid
    syntheticIdCounter,  \* ChatRouterService.syntheticIdCounter
    acsConfig,           \* createServer was given an AcsTriggerConfig
    awaiting,            \* ids whose POST /messages handler awaits the trigger
    inflight,            \* ids whose trigger fetch is outstanding
    settled,             \* <<id, outcome>> of every finished trigger fetch
    responded,           \* ids answered 201
    lastResp,            \* the latest HTTP response sent
    wssClients,          \* wss.clients, in insertion order
    wsState,             \* readyState of each stream connection
    linkUp,              \* the connection's transport still carries data
    sent,                \* frames handed to send(), per connection
    got,                 \* frames that reached the peer, per connection
    assigned,            \* history: rowids in the order the inserts committed
    okCount,             \* history: committed ingests per conversation key
    emitted,             \* history: the entry of every message:new emission
    lastOpen,            \* history: connections open at the latest emission
    lastHealthy,         \* history: those of them whose transport worked
    returned,            \* history: ids a service call has returned
    posts,               \* history: the trigger requests sent, in order
    crashes,             \* history: crashes so far
    crashPc              \* history: pc at a crash no request has followed yet

hubVars == <<up, db, durable, pc, call, syntheticIdCounter, acsConfig,
             awaiting, inflight, settled, responded, lastResp>>

wsVars == <<wssClients, wsState, linkUp, sent, got>>

histVars == <<assigned, okCount, emitted, lastOpen, lastHealthy, returned,
              posts, crashes, crashPc>>

VARIABLES
    listening,           \* the HTTP server accepts new connections
    storeOpen,           \* store.close() has not been called
    exitCode             \* <<>> while the process runs, <<n>> after exit(n)

procVars == <<listening, storeOpen, exitCode>>

VARIABLES
    reqs                 \* history: [conn, raw] of every frame a client sent

reqVars == <<reqs>>

VARIABLES
    lastQuery,           \* history: the latest store query and its outcome
    persisted            \* history: <<>>, or <<the file contents the latest
                         \* init() of a later session found>>

storeVars == <<lastQuery, persisted>>

\* A function of the program applied on its own to an argument.
VARIABLES
    arg,                 \* the argument of the call
    applied,             \* the call has returned or thrown
    result               \* what it returned, or the message of what it threw

fnVars == <<arg, applied, result>>

InitFn ==
    /\ arg = <<>>
    /\ applied = FALSE
    /\ result = <<>>

\* ------------------------------------------------------------------------
\* The JSON-file revision of the store
\* ------------------------------------------------------------------------

VARIABLES
    jsonState,           \* this.state of the JSON-file store
    jsonFile,            \* the state the JSON file holds
    jsonPc,              \* position inside ingestTransaction
    jsonCall             \* arguments of the ingestTransaction in progress

jsonVars == <<jsonState, jsonFile, jsonPc, jsonCall>>

\* No ingestTransaction is in progress.
NoJsonCall == [route |-> "none"]

\* The state of the constructor; `seq` is nextTimelineId - 1.  A file that
\* does not exist is read as this state by init().
InitJson ==
    /\ jsonState = EmptyDb
    /\ jsonFile = EmptyDb
    /\ jsonPc = "idle"
    /\ jsonCall = NoJsonCall

\* insertTimelineEntry up to its persist(): the record gets
\* this.state.nextTimelineId++ and is pushed on this.state.timeline.
jsonInsertTimelineEntry(st, entry) ==
    [st EXCEPT !.timeline = Append(@, TimelineRow(entry, st.seq + 1)),
               !.seq = @ + 1]

\* upsertConversation up to its persist(): an existing conversation gets
\* messageCount += 1, the label and, unless it is null, the chat type; a
\* new one is pushed with messageCount 1.
jsonUpsertConversation(st, platform, chatId, label, chatType) ==
    LET existing == {c \in st.conversations :
                        c.platform = platform /\ c.platformChatId = chatId}
    IN  IF existing = {}
        THEN [st EXCEPT !.conversations = @ \cup
                 {[platform         |-> platform,
                   platformChatId   |-> chatId,
                   platformChatType |-> chatType,
                   label            |-> label,
                   messageCount     |-> 1]}]
        ELSE LET c == CHOOSE x \in existing : TRUE
             IN  [st EXCEPT !.conversations = (@ \ {c}) \cup
                     {[c EXCEPT
                         !.label = label,
                         !.messageCount = @ + 1,
                         !.platformChatType =
                             IF chatType # NULL THEN chatType ELSE @]}]

\* persist(): writeFileSync replaces the file by this.state, or throws and
\* leaves the file as it was.
persist(file, st, ok) == IF ok THEN st ELSE file

\* ------------------------------------------------------------------------
\* The plugin's bot: the 'message' handler, one update at a time
\* ------------------------------------------------------------------------

VARIABLES
    updates,             \* updates whose handler has started
    botStage,            \* where the running handler stands
    botBody,             \* mapTelegramToInbound(ctx) of the running handler
    reactions,           \* ctx.react calls: the update and the entry answered
    forwardFailed,       \* history: updates whose ingestMessage threw
    handlerEnded         \* handlers that have returned

botVars == <<updates, botStage, botBody, reactions, forwardFailed,
             handlerEnded>>

NoUpdate == [platform |-> "none"]

InitBot ==
    /\ updates = 0
    /\ botStage = "idle"
    /\ botBody = NoUpdate
    /\ reactions = <<>>
    /\ forwardFailed = {}
    /\ handlerEnded = 0

\* res.ok of the fetch Response.
resOk_any(status) == TRUE

resOk(status) == status >= 200 /\ status <= 299

\* The plugin's stream socket s is the hub's stream connection s.
VARIABLES
    handled              \* frames of got[s] the plugin's 'message' handler
                         \* has run for

linkVars == <<handled>>

NoQuery ==
    [q |-> [kind |-> "none"], threw |-> FALSE, error |-> "", rows |-> <<>>,
     open |-> TRUE]

\* ------------------------------------------------------------------------
\* State of the plugin's outbound-delivery adapter (ChatRouterWsClient)
\* ------------------------------------------------------------------------

VARIABLES
    started,             \* main() has created the client and called connect()
    ws,                  \* this.ws: a socket, or 0 for null
    intentionalClose,    \* this.intentionalClose
    reconnectTimer,      \* this.reconnectTimer: a timer handle, or 0 for null
    sock,                \* readyState of each client-side socket
    timers,              \* pending setTimeout timers
    deliveries,          \* running deliverToTelegram calls, oldest first
    tgCalls,             \* bot.api.sendMessage calls issued so far
    pushes,              \* history: frames the plugin's sockets have received
    received,            \* history: those frames, in order of arrival
    done,                \* history: <<push, idx>> of every fulfilled send
    failed,              \* history: pushes whose delivery ended in the catch
    firedAge,            \* history: ms a timer had waited when it last fired
    clearedPending       \* history: disconnect() cleared a pending timer

deliveryVars == <<deliveries, tgCalls, pushes, received, done, failed>>

clientVars == <<started, ws, intentionalClose, reconnectTimer, sock, timers,
                deliveryVars, firedAge, clearedPending>>

NoCall == [route |-> "none"]

NoResp == [status |-> 0, error |-> "", id |-> 0]

\* The entry ingestTransaction returns: entryData with the rowid.
CallEntry == TimelineRow(call.entryData, call.id)

CallKey == <<call.entryData.platform, call.entryData.platformChatId>>

\* ------------------------------------------------------------------------
\* Initial state of the hub: the daemon has started on an empty database
\* file and no stream client is connected.
\* ------------------------------------------------------------------------

InitHub ==
    /\ up = TRUE
    /\ db = EmptyDb
    /\ durable = EmptyDb
    /\ pc = "idle"
    /\ call = NoCall
    /\ syntheticIdCounter = 0
    /\ awaiting = {}
    /\ inflight = {}
    /\ settled = {}
    /\ responded = {}
    /\ lastResp = NoResp
    /\ wssClients = <<>>
    /\ wsState = [c \in Conns |-> "none"]
    /\ linkUp = [c \in Conns |-> TRUE]
    /\ sent = [c \in Conns |-> <<>>]
    /\ got = [c \in Conns |-> <<>>]
    /\ assigned = <<>>
    /\ okCount = [k \in Keys |-> 0]
    /\ emitted = <<>>
    /\ lastOpen = {}
    /\ lastHealthy = {}
    /\ returned = {}
    /\ posts = <<>>
    /\ crashes = 0
    /\ crashPc = "none"
    /\ listening = TRUE
    /\ storeOpen = TRUE
    /\ exitCode = <<>>
    /\ reqs = <<>>
    /\ lastQuery = NoQuery
    /\ persisted = <<>>

\* ------------------------------------------------------------------------
\* POST /api/messages and POST /api/responses up to the store transaction
\* ------------------------------------------------------------------------

\* getDb(): the message of the error thrown when this.db is null.
NotInitialised == "ChatRouterStore: database not initialised"

\* What an operation on a closed store does: getDb() throws.
closedStoreThrows_never(open) == FALSE

closedStoreThrows(open) == ~open

\* router.post("/messages"): service.ingestMessage(req.body) validates and
\* enters store.ingestTransaction, whose getDb() throws on a closed store; a
\* validation error or that error is caught by the handler and answered
\* 400.
ingestRoute(body) ==
    /\ up /\ pc = "idle"
    /\ listening
    /\ Len(db.timeline) < MaxIngests
    /\ IF validateInbound(body) # "ok"
       THEN /\ lastResp' = [status |-> 400, error |-> validateInbound(body),
                            id |-> 0]
            /\ UNCHANGED <<pc, call>>
       ELSE IF closedStoreThrows(storeOpen)
       THEN /\ lastResp' = [status |-> 400, error |-> NotInitialised,
                            id |-> 0]
            /\ UNCHANGED <<pc, call>>
       ELSE /\ pc' = "begun"
            /\ call' = [route     |-> "messages",
                        entryData |-> inboundEntryData(body),
                        label     |-> body.senderName,
                        id        |-> 0]
            /\ UNCHANGED lastResp
    /\ crashPc' = "none"
    /\ UNCHANGED <<up, db, durable, syntheticIdCounter, acsConfig, awaiting,
                   inflight, settled, responded>>
    /\ UNCHANGED <<wsVars, assigned, okCount, emitted, lastOpen, lastHealthy,
                   returned, posts, crashes>>
    /\ UNCHANGED <<procVars, reqVars, storeVars, fnVars, jsonVars, linkVars, clientVars>>

\* POST /api/messages from a client other than the plugin's bot.
PostMessages(body) == ingestRoute(body) /\ UNCHANGED botVars

\* router.post("/responses"): service.recordResponse(req.body) validates,
\* increments the counter, mints router-N and enters ingestTransaction.
\* this.syntheticIdCounter++ of recordResponse, after validation and before
\* the store is called.
incrementCounter_once(n) == IF n = 0 THEN 1 ELSE n

incrementCounter(n) == n + 1

\* The counter after the first statements of recordResponse: the three
\* checks throw before this.syntheticIdCounter++ is reached.
counterAfterValidation_incrementsFirst(verdict, n) == incrementCounter(n)

counterAfterValidation(verdict, n) ==
    IF verdict = "ok" THEN incrementCounter(n) ELSE n

PostResponses(body) ==
    /\ up /\ pc = "idle"
    /\ listening
    /\ Len(db.timeline) < MaxIngests
    /\ syntheticIdCounter < MaxMinted
    /\ syntheticIdCounter' = counterAfterValidation(validateResponse(body),
                                                    syntheticIdCounter)
    /\ IF validateResponse(body) # "ok"
       THEN /\ lastResp' = [status |-> 400, error |-> validateResponse(body),
                            id |-> 0]
            /\ UNCHANGED <<pc, call>>
       ELSE IF closedStoreThrows(storeOpen)
       THEN /\ lastResp' = [status |-> 400, error |-> NotInitialised,
                            id |-> 0]
            /\ UNCHANGED <<pc, call>>
       ELSE /\ pc' = "begun"
            /\ call' = [route     |-> "responses",
                        entryData |-> outboundEntryData(body,
                                          syntheticIdCounter'),
                        label     |-> "System",
                        id        |-> 0]
            /\ UNCHANGED lastResp
    /\ crashPc' = "none"
    /\ UNCHANGED <<up, db, durable, acsConfig, awaiting, inflight, settled,
                   responded>>
    /\ UNCHANGED <<wsVars, assigned, okCount, emitted, lastOpen, lastHealthy,
                   returned, posts, crashes>>
    /\ UNCHANGED <<procVars, reqVars, storeVars, fnVars, jsonVars, botVars, linkVars, clientVars>>

\* ------------------------------------------------------------------------
\* store.ingestTransaction, statement by statement
\* ------------------------------------------------------------------------

\* this.insertTimelineEntry(entryData) inside the transaction.
TxnInsert ==
    /\ up /\ pc = "begun"
    /\ db' = insertTimelineEntry(db, call.entryData)
    /\ call' = [call EXCEPT !.id = lastInsertRowid(db')]
    /\ durable' = DurableAfterStatement(durable, db')
    /\ pc' = "inserted"
    /\ UNCHANGED <<up, syntheticIdCounter, acsConfig, awaiting, inflight,
                   settled, responded, lastResp>>
    /\ UNCHANGED <<wsVars, histVars>>
    /\ UNCHANGED <<procVars, reqVars, storeVars, fnVars, jsonVars, botVars, linkVars, clientVars>>

\* this.upsertConversation(...) inside the transaction.
TxnUpsert ==
    /\ up /\ pc = "inserted"
    /\ db' = upsertConversation(db, call.entryData.platform,
                                call.entryData.platformChatId, call.label,
                                call.entryData.platformChatType)
    /\ durable' = DurableAfterStatement(durable, db')
    /\ pc' = "upserted"
    /\ UNCHANGED <<up, call, syntheticIdCounter, acsConfig, awaiting,
                   inflight, settled, responded, lastResp>>
    /\ UNCHANGED <<wsVars, histVars>>
    /\ UNCHANGED <<procVars, reqVars, storeVars, fnVars, jsonVars, botVars, linkVars, clientVars>>

\* The transaction function returns and better-sqlite3 issues COMMIT.
TxnCommit ==
    /\ up /\ pc = "upserted"
    /\ durable' = db
    /\ pc' = "committed"
    /\ assigned' = Append(assigned, call.id)
    /\ okCount' = [okCount EXCEPT ![CallKey] = @ + 1]
    /\ UNCHANGED <<up, db, call, syntheticIdCounter, acsConfig, awaiting,
                   inflight, settled, responded, lastResp>>
    /\ UNCHANGED <<wsVars, emitted, lastOpen, lastHealthy, returned, posts,
                   crashes, crashPc>>
    /\ UNCHANGED <<procVars, reqVars, storeVars, fnVars, jsonVars, botVars, linkVars, clientVars>>

\* What the connection sees after db.transaction(...) has rolled back: the
\* committed contents, none of the statements of the failed transaction.
rollback_keepsStatements(d, committed) == d

rollback(d, committed) == committed

\* A statement or the COMMIT fails (disk full, I/O error, database locked):
\* better-sqlite3 rolls the transaction back and rethrows; the route's catch
\* answers 400 with the error's message.
TxnFail ==
    /\ up /\ pc \in {"begun", "inserted", "upserted"}
    /\ db' = rollback(db, durable)
    /\ pc' = "idle"
    /\ call' = NoCall
    /\ lastResp' = [status |-> 400, error |-> "SqliteError", id |-> 0]
    /\ UNCHANGED <<up, durable, syntheticIdCounter, acsConfig, awaiting,
                   inflight, settled, responded>>
    /\ UNCHANGED <<wsVars, histVars>>
    /\ UNCHANGED <<procVars, reqVars, storeVars, fnVars, jsonVars, botVars, linkVars, clientVars>>

\* ------------------------------------------------------------------------
\* Emission, broadcast and the rest of the HTTP handler
\* ------------------------------------------------------------------------

OpenClients == {c \in Conns : wsState[c] = "open"}

\* this.emit("message:new", entry) after ingestTransaction has returned; the
\* stream adapter's listener runs inside the emit and sends one frame to
\* every target.
EmitMessageNew ==
    /\ up /\ pc = "committed"
    /\ LET frame   == [type |-> "new_message", entry |-> CallEntry]
           targets == BroadcastTargets(wssClients, wsState, linkUp)
       IN  /\ sent' = [c \in Conns |->
                          IF c \in targets THEN wsSend(sent[c], frame)
                          ELSE sent[c]]
           /\ got' = [c \in Conns |->
                         IF c \in targets /\ linkUp[c]
                         THEN wsSend(got[c], frame)
                         ELSE got[c]]
    /\ emitted' = Append(emitted, CallEntry)
    /\ lastOpen' = OpenClients
    /\ lastHealthy' = {c \in OpenClients : linkUp[c]}
    /\ pc' = "emitted"
    /\ UNCHANGED <<up, db, durable, call, syntheticIdCounter, acsConfig,
                   awaiting, inflight, settled, responded, lastResp>>
    /\ UNCHANGED <<wssClients, wsState, linkUp>>
    /\ UNCHANGED <<assigned, okCount, returned, posts, crashes, crashPc>>
    /\ UNCHANGED <<procVars, reqVars, storeVars, fnVars, jsonVars, botVars, linkVars, clientVars>>

\* A handler subscribed with service.on("message:new", ...) after the stream
\* adapter's own throws.  emit() calls the handlers synchronously in the
\* order of subscription and does not catch: the broadcast has gone out, the
\* exception leaves the service call after the commit and the route's catch
\* answers 400 with its message.
ListenerError == "message:new handler failed"

EmitListenerThrows ==
    /\ up /\ pc = "committed"
    /\ LET frame   == [type |-> "new_message", entry |-> CallEntry]
           targets == BroadcastTargets(wssClients, wsState, linkUp)
       IN  /\ sent' = [c \in Conns |->
                          IF c \in targets THEN wsSend(sent[c], frame)
                          ELSE sent[c]]
           /\ got' = [c \in Conns |->
                         IF c \in targets /\ linkUp[c]
                         THEN wsSend(got[c], frame)
                         ELSE got[c]]
    /\ emitted' = Append(emitted, CallEntry)
    /\ lastOpen' = OpenClients
    /\ lastHealthy' = {c \in OpenClients : linkUp[c]}
    /\ pc' = "idle"
    /\ call' = NoCall
    /\ lastResp' = [status |-> 400, error |-> ListenerError, id |-> 0]
    /\ UNCHANGED <<up, db, durable, syntheticIdCounter, acsConfig, awaiting,
                   inflight, settled, responded>>
    /\ UNCHANGED <<wssClients, wsState, linkUp>>
    /\ UNCHANGED <<assigned, okCount, returned, posts, crashes, crashPc>>
    /\ UNCHANGED <<procVars, reqVars, storeVars, fnVars, jsonVars, botVars, linkVars, clientVars>>

\* The service call returns its entry to the route handler, which runs on to
\* its next suspension point: POST /messages calls triggerAcsJob when
\* acsConfig is set (the fetch goes out unless triggerAcsJob returns early),
\* POST /responses answers at once.
Return ==
    /\ up /\ pc = "emitted"
    /\ returned' = returned \cup {call.id}
    /\ pc' = "idle"
    /\ call' = NoCall
    /\ LET entry   == CallEntry
           fetches == call.route = "messages" /\ acsConfig
                          /\ triggerInvoked(entry)
           after   == IF call.route = "messages"
                      THEN PostMessagesAfterIngest(acsConfig, entry)
                      ELSE "responded"
       IN  /\ inflight' = IF fetches THEN inflight \cup {entry.id}
                          ELSE inflight
           /\ posts' = IF fetches
                       THEN Append(posts, [url |-> triggerUrl(AcsConfig),
                                           id  |-> entry.id])
                       ELSE posts
           /\ IF after = "awaiting"
              THEN /\ awaiting' = awaiting \cup {entry.id}
                   /\ UNCHANGED <<responded, lastResp>>
              ELSE /\ responded' = responded \cup {entry.id}
                   /\ lastResp' = [status |-> 201, error |-> "",
                                   id |-> entry.id]
                   /\ UNCHANGED awaiting
    /\ UNCHANGED <<up, db, durable, syntheticIdCounter, acsConfig, settled>>
    /\ UNCHANGED <<wsVars, assigned, okCount, emitted, lastOpen, lastHealthy,
                   crashes, crashPc>>
    /\ UNCHANGED <<procVars, reqVars, storeVars, fnVars, jsonVars, botVars, linkVars, clientVars>>

\* The trigger fetch of entry `id` ends: a 2xx answer with a JSON body, a
\* non-2xx answer, a network failure or an unparsable body.  triggerAcsJob
\* returns a boolean in each case and the suspended handler answers 201 (a
\* rejection of the awaited promise would reach the handler's catch, which
\* answers 400).
TriggerOutcomes == {"ok", "non2xx", "network", "parse"}

TriggerSettle(id, outcome) ==
    /\ up /\ pc = "idle"
    /\ id \in inflight
    /\ inflight' = inflight \ {id}
    /\ settled' = settled \cup {<<id, outcome>>}
    /\ IF id \in awaiting
       THEN /\ awaiting' = awaiting \ {id}
            /\ IF triggerAcsJob(outcome) = "throws"
               THEN /\ lastResp' = [status |-> 400, error |-> outcome,
                                    id |-> 0]
                    /\ UNCHANGED responded
               ELSE /\ responded' = responded \cup {id}
                    /\ lastResp' = [status |-> 201, error |-> "", id |-> id]
       ELSE UNCHANGED <<awaiting, responded, lastResp>>
    /\ UNCHANGED <<up, db, durable, pc, call, syntheticIdCounter, acsConfig>>
    /\ UNCHANGED <<wsVars, histVars>>
    /\ UNCHANGED <<procVars, reqVars, storeVars, fnVars, jsonVars, botVars, linkVars, clientVars>>

\* ------------------------------------------------------------------------
\* Crash and restart of the daemon
\* ------------------------------------------------------------------------

\* The process dies at any point: memory, suspended handlers and sockets are
\* gone; the database file keeps what was committed.
Crash ==
    /\ up
    /\ crashes < MaxCrashes
    /\ crashes' = crashes + 1
    /\ up' = FALSE
    /\ crashPc' = pc
    /\ pc' = "idle"
    /\ call' = NoCall
    /\ db' = durable
    /\ awaiting' = {}
    /\ inflight' = {}
    /\ wssClients' = <<>>
    /\ wsState' = [c \in Conns |->
                      IF wsState[c] = "none" THEN "none" ELSE "closed"]
    /\ UNCHANGED <<durable, syntheticIdCounter, acsConfig, settled, responded,
                   lastResp, linkUp, sent, got>>
    /\ UNCHANGED <<assigned, okCount, emitted, lastOpen, lastHealthy, returned,
                   posts>>
    /\ UNCHANGED <<procVars, reqVars, storeVars, fnVars, jsonVars, botVars, linkVars, clientVars>>

\* The daemon starts again on the same file: store.init() reopens it (SQLite
\* recovery leaves the committed contents) and a new service is created.
Restart ==
    /\ ~up
    /\ up' = TRUE
    /\ db' = durable
    /\ syntheticIdCounter' = 0
    /\ UNCHANGED <<durable, pc, call, acsConfig, awaiting, inflight, settled,
                   responded, lastResp>>
    /\ UNCHANGED <<wsVars, histVars>>
    /\ UNCHANGED <<procVars, reqVars, storeVars, fnVars, jsonVars, botVars, linkVars, clientVars>>

\* ------------------------------------------------------------------------
\* Queries, close and reopen of the store
\* ------------------------------------------------------------------------

TimelineQuery(kind, platform, chatId, after, before, limit) ==
    [kind |-> kind, platform |-> platform, platformChatId |-> chatId,
     after |-> after, before |-> before, limit |-> limit]

\* The rows a timeline query returns on database d.
queryRows(d, q) ==
    IF q.kind = "timeline"
    THEN getTimeline(d, q.platform, q.platformChatId, q.after, q.before,
                     q.limit)
    ELSE getUnifiedTimeline(d, q.after, q.before, q.limit)

\* getTimeline / getUnifiedTimeline between two requests: getDb() throws
\* when the store is closed, otherwise the SELECT runs.
GetTimeline(q) ==
    /\ up /\ pc = "idle"
    /\ lastQuery' = IF closedStoreThrows(storeOpen)
                    THEN [q |-> q, threw |-> TRUE, error |-> NotInitialised,
                          rows |-> <<>>, open |-> storeOpen]
                    ELSE [q |-> q, threw |-> FALSE, error |-> "",
                          rows |-> queryRows(db, q), open |-> storeOpen]
    /\ UNCHANGED persisted
    /\ UNCHANGED <<hubVars, wsVars, histVars, procVars, reqVars>>
    /\ UNCHANGED <<fnVars, jsonVars, botVars, linkVars, clientVars>>

\* store.close(): the connection is closed and this.db becomes null.
StoreClose ==
    /\ up /\ pc = "idle"
    /\ storeOpen
    /\ storeOpen' = FALSE
    /\ UNCHANGED <<listening, exitCode, lastQuery, persisted>>
    /\ UNCHANGED <<hubVars, wsVars, histVars, reqVars>>
    /\ UNCHANGED <<fnVars, jsonVars, botVars, linkVars, clientVars>>

\* What init() leaves of the file it opens: CREATE TABLE IF NOT EXISTS and
\* CREATE INDEX IF NOT EXISTS change nothing that exists.
initSchema_recreate(d) == EmptyDb

initSchema(d) == d

\* A new ChatRouterStore on the same path, init(): the file is opened again.
StoreInit ==
    /\ up /\ pc = "idle"
    /\ ~storeOpen
    /\ storeOpen' = TRUE
    /\ durable' = initSchema(durable)
    /\ db' = initSchema(durable)
    /\ persisted' = <<durable>>
    /\ UNCHANGED <<listening, exitCode, lastQuery>>
    /\ UNCHANGED <<up, pc, call, syntheticIdCounter, acsConfig, awaiting,
                   inflight, settled, responded, lastResp>>
    /\ UNCHANGED <<wsVars, histVars, reqVars>>
    /\ UNCHANGED <<fnVars, jsonVars, botVars, linkVars, clientVars>>

\* ------------------------------------------------------------------------
\* Graceful shutdown
\* ------------------------------------------------------------------------

\* What shutdown() does to the stream connections before it returns: the
\* function calls server.close() only, the WebSocketServer and its clients
\* are not touched.
shutdownClients(state) == state

\* SIGINT or SIGTERM: shutdown(signal) logs and calls server.close(cb); the
\* server stops listening at once and cb waits for the 'close' event.  A
\* signal that arrives later finds the server closed already and registers
\* one more callback on the same event.
Shutdown ==
    /\ up /\ pc = "idle"
    /\ listening
    /\ listening' = FALSE
    /\ wsState' = shutdownClients(wsState)
    /\ UNCHANGED <<storeOpen, exitCode>>
    /\ UNCHANGED <<wssClients, linkUp, sent, got>>
    /\ UNCHANGED <<hubVars, histVars>>
    /\ UNCHANGED <<reqVars, storeVars, fnVars, jsonVars, botVars, linkVars, clientVars>>

\* When the server, no longer listening, has no connection left: every
\* stream socket has closed and every request has been answered.
connectionsEnded_idleOnly(clients, pending) == Len(clients) = 0

connectionsEnded(clients, pending) == Len(clients) = 0 /\ pending = {}

\* The server's 'close' event: emitted once the server has stopped listening
\* and every connection it accepted has ended, those upgraded to a stream
\* socket and those of a request still being answered included.  The
\* callback closes the store and calls process.exit(0).
ServerClosed ==
    /\ up /\ pc = "idle"
    /\ ~listening
    /\ connectionsEnded(wssClients, awaiting)
    /\ storeOpen' = FALSE
    /\ exitCode' = <<0>>
    /\ up' = FALSE
    /\ UNCHANGED listening
    /\ UNCHANGED <<db, durable, pc, call, syntheticIdCounter, acsConfig,
                   awaiting, inflight, settled, responded, lastResp>>
    /\ UNCHANGED <<wsVars, histVars>>
    /\ UNCHANGED <<reqVars, storeVars, fnVars, jsonVars, botVars, linkVars, clientVars>>

\* ------------------------------------------------------------------------
\* Stream connections
\* ------------------------------------------------------------------------

\* wss 'connection': a client completes the handshake and joins wss.clients.
\* Connections are numbered in the order they are made.
WsConnect(c) ==
    /\ up /\ pc = "idle"
    /\ listening
    /\ wsState[c] = "none"
    /\ \A b \in Conns : b < c => wsState[b] # "none"
    /\ wsState' = [wsState EXCEPT ![c] = "open"]
    /\ wssClients' = Append(wssClients, c)
    /\ UNCHANGED <<linkUp, sent, got>>
    /\ UNCHANGED <<hubVars, histVars>>
    /\ UNCHANGED <<procVars, reqVars, storeVars, fnVars, jsonVars, botVars, linkVars, clientVars>>

\* The transport of an open connection fails; the hub has not seen it yet.
WsLinkFail(c) ==
    /\ up /\ pc = "idle"
    /\ wsState[c] = "open" /\ linkUp[c]
    /\ linkUp' = [linkUp EXCEPT ![c] = FALSE]
    /\ UNCHANGED <<wssClients, wsState, sent, got>>
    /\ UNCHANGED <<hubVars, histVars>>
    /\ UNCHANGED <<procVars, reqVars, storeVars, fnVars, jsonVars, botVars, linkVars, clientVars>>

\* A close handshake starts: readyState is CLOSING, the socket is still in
\* wss.clients.
WsCloseStart(c) ==
    /\ up /\ pc = "idle"
    /\ wsState[c] = "open"
    /\ wsState' = [wsState EXCEPT ![c] = "closing"]
    /\ UNCHANGED <<wssClients, linkUp, sent, got>>
    /\ UNCHANGED <<hubVars, histVars>>
    /\ UNCHANGED <<procVars, reqVars, storeVars, fnVars, jsonVars, botVars, linkVars, clientVars>>

\* The socket's 'close' event (after its 'error' event when the transport
\* failed): the handlers log, ws drops the socket from wss.clients and the
\* socket object, with what was sent on it, is garbage.
WsCloseEvent(c) ==
    /\ up /\ pc = "idle"
    /\ wsState[c] = "closing" \/ (wsState[c] = "open" /\ ~linkUp[c])
    /\ wsState' = [wsState EXCEPT ![c] = "closed"]
    /\ wssClients' = SelectSeq(wssClients, LAMBDA x : x # c)
    /\ linkUp' = [linkUp EXCEPT ![c] = TRUE]
    /\ sent' = [sent EXCEPT ![c] = <<>>]
    /\ got' = [got EXCEPT ![c] = <<>>]
    /\ UNCHANGED <<hubVars, histVars>>
    /\ UNCHANGED <<procVars, reqVars, storeVars, fnVars, jsonVars, botVars, linkVars, clientVars>>

\* ------------------------------------------------------------------------
\* Requests on a stream connection
\* ------------------------------------------------------------------------

\* A frame as the hub's 'message' handler sees it: `json` tells whether
\* JSON.parse succeeds, `null` whether it yields null, `type` is req.type.
WsFrame(json, null, type) == [json |-> json, null |-> null, type |-> type]

RequestTypes == {"health", "conversations", "timeline", "unified_timeline"}

\* service.healthCheck(): { ok: true, ...store.getStats() }
healthCheck_swapped(d) ==
    [ok                |-> TRUE,
     messageCount      |-> Cardinality(d.conversations),
     conversationCount |-> Len(d.timeline)]

healthCheck(d) ==
    [ok                |-> TRUE,
     messageCount      |-> Len(d.timeline),
     conversationCount |-> Cardinality(d.conversations)]

\* sendError(ws, message)
WsError(message) == [type |-> "error", message |-> message]

\* sendResponse(ws, requestType, data)
WsResponse(requestType, data) ==
    [type |-> "response", requestType |-> requestType, data |-> data]

wsReply_silent(raw, d) ==
    IF ~raw.json THEN <<>>
    ELSE IF raw.null
        THEN <<WsError("Cannot read properties of null (reading 'type')")>>
    ELSE CASE raw.type = "health" ->
                  <<WsResponse("health", healthCheck(d))>>
           [] raw.type \notin RequestTypes ->
                  <<WsError("unknown request type: " \o raw.type)>>

\* The frames the 'message' handler sends for one received frame: an error
\* when JSON.parse throws, an error with the exception's message when
\* handleRequest throws (reading req.type of null), the response of a
\* health request, an error from the default branch of the switch.
wsReply(raw, d) ==
    IF ~raw.json THEN <<WsError("malformed JSON")>>
    ELSE IF raw.null
        THEN <<WsError("Cannot read properties of null (reading 'type')")>>
    ELSE CASE raw.type = "health" ->
                  <<WsResponse("health", healthCheck(d))>>
           [] raw.type \notin RequestTypes ->
                  <<WsError("unknown request type: " \o raw.type)>>

\* ws 'message' on connection c: the handler parses the frame, dispatches
\* it and sends the reply on the same socket; nothing else is touched.
WsRequest(c, raw) ==
    /\ up /\ pc = "idle"
    /\ wsState[c] = "open" /\ linkUp[c]
    /\ Len(reqs) < MaxRequests
    /\ reqs' = Append(reqs, [conn |-> c, raw |-> raw])
    /\ sent' = [sent EXCEPT ![c] = @ \o wsReply(raw, db)]
    /\ got' = [got EXCEPT ![c] = @ \o wsReply(raw, db)]
    /\ UNCHANGED <<wssClients, wsState, linkUp>>
    /\ UNCHANGED <<hubVars, histVars, procVars>>
    /\ UNCHANGED <<storeVars, fnVars, jsonVars, botVars, linkVars, clientVars>>

\* ------------------------------------------------------------------------
\* splitMessage.  A JavaScript string is a sequence of UTF-16 code units:
\* "H" and "L" stand for a high and a low surrogate, "\n" for a newline and
\* any other value for a BMP character.
\* ------------------------------------------------------------------------

Drop(str, n) == SubSeq(str, n + 1, Len(str))

Take(str, n) == SubSeq(str, 1, IF n < Len(str) THEN n ELSE Len(str))

\* Array.from(str): the string's code points, a surrogate pair being one.
\* A high surrogate followed by a low one is a pair wherever it stands, so
\* the string is cut in two between code points and each half is converted.
ArrayFrom_codeUnits(str) == [i \in 1..Len(str) |-> <<str[i]>>]

RECURSIVE ArrayFrom(_)
ArrayFrom(str) ==
    IF Len(str) = 0 THEN <<>>
    ELSE IF Len(str) = 1 THEN <<str>>
    ELSE IF Len(str) = 2 /\ str[1] = "H" /\ str[2] = "L" THEN <<str>>
    ELSE LET half == Len(str) \div 2
             cut  == IF str[half] = "H" /\ str[half + 1] = "L"
                     THEN half + 1
                     ELSE half
         IN  ArrayFrom(Take(str, cut)) \o ArrayFrom(Drop(str, cut))

\* codePoints.join("")
RECURSIVE Join(_)
Join(cps) ==
    IF Len(cps) = 0 THEN <<>>
    ELSE IF Len(cps) = 1 THEN cps[1]
    ELSE Join(Take(cps, Len(cps) \div 2)) \o Join(Drop(cps, Len(cps) \div 2))

\* str.lastIndexOf("\n"), zero-based, -1 when there is none.
lastIndexOfNewline_first(str) ==
    LET at == {i \in 1..Len(str) : str[i] = "\n"}
    IN  IF at = {} THEN -1
        ELSE (CHOOSE i \in at : \A j \in at : i <= j) - 1

lastIndexOfNewline(str) ==
    LET at == {i \in 1..Len(str) : str[i] = "\n"}
    IN  IF at = {} THEN -1
        ELSE (CHOOSE i \in at : \A j \in at : j <= i) - 1

\* The while loop of splitMessage over `remaining`.
RECURSIVE splitLoop(_, _)
splitLoop(remaining, maxLength) ==
    IF Len(remaining) = 0 THEN <<>>
    ELSE IF Len(remaining) <= maxLength THEN <<remaining>>
    ELSE LET codePoints  == ArrayFrom(remaining)
             window      == Join(Take(codePoints, maxLength))
             lastNewline == lastIndexOfNewline(window)
         IN  IF Len(codePoints) <= maxLength THEN <<remaining>>
             ELSE IF lastNewline > 0
             THEN <<Take(window, lastNewline + 1)>>
                      \o splitLoop(Drop(remaining, lastNewline + 1),
                                   maxLength)
             ELSE <<window>>
                      \o splitLoop(Drop(remaining, Len(window)), maxLength)

splitMessage(text, maxLength) ==
    IF Len(text) = 0 THEN <<text>>
    ELSE IF Len(text) <= maxLength THEN <<text>>
    ELSE splitLoop(text, maxLength)

\* ------------------------------------------------------------------------
\* The plugin's outbound-delivery adapter: ChatRouterWsClient
\* ------------------------------------------------------------------------

SockIds == 1..MaxSockets

TimerIds == 1..MaxTimers

\* A socket slot that holds no socket object whose events can still arrive.
FreeSocks == {s \in SockIds : sock[s] \in {"none", "closed"}}

FreeTimers == TimerIds \ {t.id : t \in timers}

Lowest(S) == CHOOSE x \in S : \A y \in S : x <= y

InitClient ==
    /\ handled = [s \in SockIds |-> 0]
    /\ started = FALSE
    /\ ws = 0
    /\ intentionalClose = FALSE
    /\ reconnectTimer = 0
    /\ sock = [s \in SockIds |-> "none"]
    /\ timers = {}
    /\ deliveries = <<>>
    /\ tgCalls = <<>>
    /\ pushes = 0
    /\ received = <<>>
    /\ done = {}
    /\ failed = {}
    /\ firedAge = -1
    /\ clearedPending = FALSE

\* connect(): the flag is reset and this.ws becomes a new socket whose
\* handlers are registered; the handshake runs in the background.
connect ==
    /\ FreeSocks # {}
    /\ intentionalClose' = FALSE
    /\ ws' = Lowest(FreeSocks)
    /\ sock' = [sock EXCEPT ![Lowest(FreeSocks)] = "connecting"]

\* setTimeout(fn, delay): a new pending timer.
setTimeout(pending, handle, delay) ==
    pending \cup {[id |-> handle, remaining |-> delay, age |-> 0]}

\* clearTimeout(handle): the timer, if still pending, never fires.
clearTimeout_noop(pending, handle) == pending

clearTimeout(pending, handle) == {t \in pending : t.id # handle}

\* The test of the 'close' handler: a reconnect is scheduled.
closeSchedules_never(flag) == FALSE

closeSchedules(flag) == ~flag

\* ws.close() on a socket: a connecting or open socket starts closing; on a
\* closing or closed one it does nothing.
wsClose(socks, s) ==
    [socks EXCEPT ![s] = IF @ \in {"connecting", "open"} THEN "closing" ELSE @]

\* main(): the client is constructed and connect() is called once.
PluginStart ==
    /\ ~started
    /\ started' = TRUE
    /\ connect
    /\ UNCHANGED <<reconnectTimer, timers, firedAge, clearedPending>>
    /\ UNCHANGED deliveryVars
    /\ UNCHANGED <<hubVars, wsVars, histVars, procVars, reqVars, storeVars, fnVars, jsonVars, botVars, linkVars>>

\* client.connect() called by the owner of the client at any moment: the
\* method tests nothing before it replaces this.ws.
Connect ==
    /\ started' = TRUE
    /\ connect
    /\ UNCHANGED <<reconnectTimer, timers, firedAge, clearedPending>>
    /\ UNCHANGED deliveryVars
    /\ UNCHANGED <<hubVars, wsVars, histVars, procVars, reqVars, storeVars, fnVars, jsonVars, botVars, linkVars>>

\* The socket's 'open' event: the handler logs.
SockOpen(s) ==
    /\ sock[s] = "connecting"
    /\ sock' = [sock EXCEPT ![s] = "open"]
    /\ UNCHANGED <<started, ws, intentionalClose, reconnectTimer, timers,
                   firedAge, clearedPending>>
    /\ UNCHANGED deliveryVars
    /\ UNCHANGED <<hubVars, wsVars, histVars, procVars, reqVars, storeVars, fnVars, jsonVars, botVars, linkVars>>

\* The socket's 'close' event: the connection attempt failed, an established
\* connection dropped, or a close() completed (an 'error' event, which only
\* logs, precedes it in the first two cases).  The handler schedules a
\* reconnect unless the flag is set.
SockClose(s) ==
    /\ sock[s] \in {"connecting", "open", "closing"}
    /\ sock' = [sock EXCEPT ![s] = "closed"]
    /\ IF closeSchedules(intentionalClose)
       THEN /\ FreeTimers # {}
            /\ reconnectTimer' = Lowest(FreeTimers)
            /\ timers' = setTimeout(timers, Lowest(FreeTimers),
                                    ReconnectDelayMs)
       ELSE UNCHANGED <<reconnectTimer, timers>>
    /\ UNCHANGED <<started, ws, intentionalClose, firedAge, clearedPending>>
    /\ UNCHANGED deliveryVars
    /\ UNCHANGED <<hubVars, wsVars, histVars, procVars, reqVars, storeVars, fnVars, jsonVars, botVars, linkVars>>

\* Time passes up to the earliest deadline of a pending timer.
TimeAdvance ==
    /\ timers # {}
    /\ \A t \in timers : t.remaining > 0
    /\ LET d == Lowest({t.remaining : t \in timers})
       IN  timers' = {[t EXCEPT !.remaining = @ - d, !.age = @ + d] :
                         t \in timers}
    /\ UNCHANGED <<started, ws, intentionalClose, reconnectTimer, sock,
                   firedAge, clearedPending>>
    /\ UNCHANGED deliveryVars
    /\ UNCHANGED <<hubVars, wsVars, histVars, procVars, reqVars, storeVars, fnVars, jsonVars, botVars, linkVars>>

\* A due timer fires: its callback calls connect().
TimerFire(t) ==
    /\ t \in timers
    /\ t.remaining = 0
    /\ timers' = timers \ {t}
    /\ firedAge' = t.age
    /\ connect
    /\ UNCHANGED <<started, reconnectTimer, clearedPending>>
    /\ UNCHANGED deliveryVars
    /\ UNCHANGED <<hubVars, wsVars, histVars, procVars, reqVars, storeVars, fnVars, jsonVars, botVars, linkVars>>

\* A raw frame as the plugin sees it: `json` tells whether JSON.parse
\* succeeds; the entry's text is <<>> for null and <<str>> for a string.
RawFrame(json, type, direction, platform, chatId, text) ==
    [json |-> json, type |-> type,
     entry |-> [direction |-> direction, platform |-> platform,
                platformChatId |-> chatId, text |-> text]]

\* !entry.text
NoText(text) == text = <<>> \/ Len(text[1]) = 0

handleMessageDelivers_anyDirection(raw) ==
    /\ raw.json
    /\ raw.type = "new_message"
    /\ raw.entry.platform = "telegram"
    /\ ~NoText(raw.entry.text)

\* The tests of handleMessage that lead to deliverToTelegram(entry).
handleMessageDelivers(raw) ==
    /\ raw.json
    /\ raw.type = "new_message"
    /\ raw.entry.direction = "out"
    /\ raw.entry.platform = "telegram"
    /\ ~NoText(raw.entry.text)

\* The sends deliverToTelegram has issued when it first suspends: the loop
\* awaits each bot.api.sendMessage, so only that of the first chunk.
sendsBeforeAwait_all(chunks) == chunks

sendsBeforeAwait(chunks) == <<chunks[1]>>

\* What the catch of deliverToTelegram does to the sockets: it logs.
afterSendFailure_closes(socks) ==
    [s \in SockIds |-> IF socks[s] = "open" THEN "closing" ELSE socks[s]]

afterSendFailure(socks) == socks

\* The socket's 'message' event: handleMessage(raw.toString()).  When the
\* frame passes the tests deliverToTelegram runs up to its first await: the
\* text is split and the send of the first chunk is issued.
onMessage(s, raw) ==
    /\ sock[s] \in {"open", "closing"}
    /\ pushes < MaxPushes
    /\ pushes' = pushes + 1
    /\ received' = Append(received, raw)
    /\ IF handleMessageDelivers(raw)
       THEN LET chunks == splitMessage(raw.entry.text[1], TELEGRAM_MAX_LENGTH)
                issued == sendsBeforeAwait(chunks)
            IN  /\ deliveries' = Append(deliveries,
                       [push   |-> pushes + 1,
                        chatId |-> raw.entry.platformChatId,
                        chunks |-> chunks,
                        next   |-> 1])
                /\ tgCalls' = tgCalls \o
                       [k \in 1..Len(issued) |->
                           [push   |-> pushes + 1,
                            chatId |-> raw.entry.platformChatId,
                            idx    |-> k,
                            text   |-> issued[k]]]
       ELSE UNCHANGED <<deliveries, tgCalls>>
    /\ UNCHANGED <<started, ws, intentionalClose, reconnectTimer, sock,
                   timers, firedAge, clearedPending, done, failed>>
    /\ UNCHANGED <<hubVars, wsVars, histVars, procVars, reqVars, storeVars, fnVars, jsonVars, botVars>>

SockMessage(s, raw) ==
    /\ onMessage(s, raw)
    /\ UNCHANGED linkVars

\* The characters of the texts the request bodies carry.
Units(text) ==
    CASE text = "yo" -> <<"y", "o">>
      [] text = "hi" -> <<"h", "i">>
      [] OTHER -> <<>>

\* JSON.stringify(push) at the hub, raw.toString() and JSON.parse at the
\* plugin: the push as handleMessage sees it.
parsePush_truncated(frame) ==
    [json |-> FALSE, type |-> "",
     entry |-> [id |-> frame.entry.id, direction |-> "", platform |-> "",
                platformChatId |-> "", text |-> <<>>]]

parsePush(frame) ==
    [json |-> TRUE, type |-> frame.type,
     entry |-> [id             |-> frame.entry.id,
                direction      |-> frame.entry.direction,
                platform       |-> frame.entry.platform,
                platformChatId |-> frame.entry.platformChatId,
                text           |-> IF frame.entry.text = NULL THEN <<>>
                                   ELSE <<Units(frame.entry.text)>>]]

\* The hub accepts the connection of the plugin's socket s: 'connection' at
\* the hub, 'open' at the plugin.
Handshake(s) ==
    /\ sock[s] = "connecting"
    /\ up /\ pc = "idle" /\ listening
    /\ wsState[s] \in {"none", "closed"}
    /\ sock' = [sock EXCEPT ![s] = "open"]
    /\ wsState' = [wsState EXCEPT ![s] = "open"]
    /\ wssClients' = Append(wssClients, s)
    /\ handled' = [handled EXCEPT ![s] = 0]
    /\ UNCHANGED <<linkUp, sent, got>>
    /\ UNCHANGED <<started, ws, intentionalClose, reconnectTimer, timers,
                   firedAge, clearedPending>>
    /\ UNCHANGED deliveryVars
    /\ UNCHANGED <<hubVars, histVars, procVars, reqVars, storeVars, fnVars, jsonVars, botVars>>

\* The next frame that reached the plugin's socket s raises its 'message'
\* event.
PushArrives(s) ==
    /\ handled[s] < Len(got[s])
    /\ onMessage(s, parsePush(got[s][handled[s] + 1]))
    /\ handled' = [handled EXCEPT ![s] = @ + 1]

\* The plugin's socket s closes once the frames it holds have been handled:
\* its connection attempt failed, its transport failed or the hub closed it.
PluginSockClose(s) ==
    /\ handled[s] >= Len(got[s])
    /\ ~linkUp[s] \/ wsState[s] # "open"
    /\ SockClose(s)

\* The hub's 'close' event for the connection of the plugin's socket s.
HubSockClose(s) ==
    /\ handled[s] >= Len(got[s])
    /\ WsCloseEvent(s)

\* The awaited bot.api.sendMessage of delivery i settles.  Fulfilled: the
\* loop issues the send of the next chunk, or the delivery ends after the
\* last one.  Rejected: the catch logs and the delivery ends.
SendSettle(i, ok) ==
    /\ i \in 1..Len(deliveries)
    /\ LET d    == deliveries[i]
           rest == [j \in 1..(Len(deliveries) - 1) |->
                       IF j < i THEN deliveries[j] ELSE deliveries[j + 1]]
       IN  /\ IF ok /\ d.next < Len(d.chunks)
              THEN /\ deliveries' = [deliveries EXCEPT ![i].next = d.next + 1]
                   /\ tgCalls' = Append(tgCalls,
                          [push   |-> d.push,
                           chatId |-> d.chatId,
                           idx    |-> d.next + 1,
                           text   |-> d.chunks[d.next + 1]])
              ELSE /\ deliveries' = rest
                   /\ UNCHANGED tgCalls
           /\ done' = IF ok THEN done \cup {<<d.push, d.next>>} ELSE done
           /\ failed' = IF ok THEN failed ELSE failed \cup {d.push}
    /\ sock' = IF ok THEN sock ELSE afterSendFailure(sock)
    /\ UNCHANGED <<started, ws, intentionalClose, reconnectTimer, timers,
                   pushes, received, firedAge, clearedPending>>
    /\ UNCHANGED <<hubVars, wsVars, histVars, procVars, reqVars, storeVars, fnVars, jsonVars, botVars, linkVars>>

\* shutdown(signal) of the plugin, on SIGINT or SIGTERM: wsClient.disconnect().
PluginShutdown ==
    /\ started
    /\ intentionalClose' = TRUE
    /\ timers' = IF reconnectTimer # 0
                 THEN clearTimeout(timers, reconnectTimer)
                 ELSE timers
    /\ clearedPending' = (clearedPending
                             \/ \E t \in timers : t.id = reconnectTimer)
    /\ reconnectTimer' = 0
    /\ sock' = IF ws # 0 THEN wsClose(sock, ws) ELSE sock
    /\ ws' = 0
    /\ UNCHANGED <<started, firedAge>>
    /\ UNCHANGED deliveryVars
    /\ UNCHANGED <<hubVars, wsVars, histVars, procVars, reqVars, storeVars, fnVars, jsonVars, botVars, linkVars>>

\* ------------------------------------------------------------------------
\* Specifications
\* ------------------------------------------------------------------------

vars == <<hubVars, wsVars, histVars, procVars, reqVars, storeVars, fnVars,
          jsonVars, botVars, linkVars, clientVars>>

\* Request bodies of the store specification: two conversations, with and
\* without a chat type, and one body each that validation rejects.
StoreInbound ==
    {InboundMessage("telegram", "c1", "private", "hi"),
     InboundMessage("telegram", "c1", NULL, "hi"),
     InboundMessage("telegram", "c2", "private", "hi"),
     [BaseInbound EXCEPT !.senderId = ""]}

StoreOutbound ==
    {OutboundRequest("telegram", "c1", "yo"),
     OutboundRequest("telegram", "c1", "")}

\* Store and service under crashes: no trigger configured, no stream client.
Init ==
    /\ InitHub
    /\ InitClient
    /\ InitJson
    /\ InitBot
    /\ InitFn
    /\ acsConfig = FALSE

Next ==
    \/ \E body \in StoreInbound : PostMessages(body)
    \/ \E body \in StoreOutbound : PostResponses(body)
    \/ TxnInsert
    \/ TxnUpsert
    \/ TxnCommit
    \/ TxnFail
    \/ EmitMessageNew
    \/ Return
    \/ Crash
    \/ Restart

Spec == Init /\ [][Next]_vars

\* Frames the plugin receives: unparsable, of another type, inbound, of
\* another platform, without text, and two deliverable ones.
ClientFrames ==
    {RawFrame(FALSE, "", "", "", "", <<>>),
     RawFrame(TRUE, "response", "out", "telegram", "c1", <<<<"y", "o">>>>),
     RawFrame(TRUE, "new_message", "in", "telegram", "c1", <<<<"h", "i">>>>),
     RawFrame(TRUE, "new_message", "out", "discord", "c1", <<<<"y", "o">>>>),
     RawFrame(TRUE, "new_message", "out", "telegram", "c1", <<>>),
     RawFrame(TRUE, "new_message", "out", "telegram", "c1", <<<<>>>>),
     RawFrame(TRUE, "new_message", "out", "telegram", "c1", <<<<"y", "o">>>>),
     RawFrame(TRUE, "new_message", "out", "telegram", "c2", <<<<"o", "k">>>>)}

\* The plugin from its start to its shutdown, the hub idle.
InitClientSpec ==
    /\ InitHub
    /\ InitClient
    /\ InitJson
    /\ InitBot
    /\ InitFn
    /\ acsConfig = FALSE

NextClient ==
    \/ PluginStart
    \/ \E s \in SockIds : SockOpen(s)
    \/ \E s \in SockIds : SockClose(s)
    \/ TimeAdvance
    \/ \E t \in timers : TimerFire(t)
    \/ \E s \in SockIds, raw \in ClientFrames : SockMessage(s, raw)
    \/ \E i \in 1..Len(deliveries), ok \in BOOLEAN : SendSettle(i, ok)
    \/ PluginShutdown

SpecClient == InitClientSpec /\ [][NextClient]_vars

\* The client class under any sequence of connect() and disconnect() calls
\* of its owner and any socket events.
AdapterFrames ==
    {RawFrame(TRUE, "new_message", "out", "telegram", "c1", <<<<"y", "o">>>>)}

NextAdapter ==
    \/ Connect
    \/ PluginShutdown
    \/ \E s \in SockIds : SockOpen(s)
    \/ \E s \in SockIds : SockClose(s)
    \/ TimeAdvance
    \/ \E t \in timers : TimerFire(t)
    \/ \E s \in SockIds, raw \in AdapterFrames : SockMessage(s, raw)
    \/ \E i \in 1..Len(deliveries), ok \in BOOLEAN : SendSettle(i, ok)

SpecAdapter == InitClientSpec /\ [][NextAdapter]_vars

\* A text longer than two Telegram messages, with a newline at code unit
\* `newlineAt` (none when 0).
LongText(len, newlineAt) ==
    [i \in 1..len |-> IF i = newlineAt THEN "\n" ELSE "a"]

DeliveryFrames ==
    {RawFrame(TRUE, "new_message", "out", "telegram", "c1",
              <<<<"y", "o">>>>),
     RawFrame(TRUE, "new_message", "out", "telegram", "c2",
              <<LongText(TELEGRAM_MAX_LENGTH + TELEGRAM_MAX_LENGTH + 1,
                         4000)>>)}

\* The chunks of each of these frames' text.
DeliveryChunks ==
    [raw \in DeliveryFrames |->
        splitMessage(raw.entry.text[1], TELEGRAM_MAX_LENGTH)]

\* The plugin connected to the hub and receiving outbound entries of one
\* and of several chunks, the platform accepting or rejecting each send.
NextDelivery ==
    \/ PluginStart
    \/ \E s \in SockIds : SockOpen(s)
    \/ \E s \in SockIds, raw \in DeliveryFrames : SockMessage(s, raw)
    \/ \E i \in 1..Len(deliveries), ok \in BOOLEAN : SendSettle(i, ok)

SpecDelivery == InitClientSpec /\ [][NextDelivery]_vars

\* The hub with stream clients coming and going: one inbound and one
\* outbound body of the same conversation, no trigger configured, no
\* failure of the store.
StreamInbound == {InboundMessage("telegram", "c1", "private", "hi")}

StreamOutbound == {OutboundRequest("telegram", "c1", "yo")}

InitStream ==
    /\ InitHub
    /\ InitClient
    /\ InitJson
    /\ InitBot
    /\ InitFn
    /\ acsConfig = FALSE

StreamPost ==
    /\ Len(emitted) < MaxBroadcasts
    /\ \/ \E body \in StreamInbound : PostMessages(body)
       \/ \E body \in StreamOutbound : PostResponses(body)

NextStream ==
    \/ StreamPost
    \/ TxnInsert
    \/ TxnUpsert
    \/ TxnCommit
    \/ EmitMessageNew
    \/ Return
    \/ \E c \in Conns : WsConnect(c)
    \/ \E c \in Conns : WsLinkFail(c)
    \/ \E c \in Conns : WsCloseStart(c)
    \/ \E c \in Conns : WsCloseEvent(c)

SpecStream == InitStream /\ [][NextStream]_vars

\* Frames a stream client sends: unparsable, the JSON text null, a request
\* of an unknown type and a health request.
WsFrames ==
    {WsFrame(FALSE, FALSE, ""),
     WsFrame(TRUE, TRUE, ""),
     WsFrame(TRUE, FALSE, "foobar"),
     WsFrame(TRUE, FALSE, "health")}

\* Inbound messages arriving while stream clients are connected.
RequestsPost ==
    /\ Len(emitted) < MaxBroadcasts
    /\ \E body \in StreamInbound : PostMessages(body)

\* The hub with stream clients that stay connected; the first of them sends
\* requests between the pushes, the others only listen.
NextRequests ==
    \/ RequestsPost
    \/ TxnInsert
    \/ TxnUpsert
    \/ TxnCommit
    \/ EmitMessageNew
    \/ Return
    \/ \E c \in Conns : WsConnect(c)
    \/ \E raw \in WsFrames : WsRequest(Lowest(Conns), raw)

SpecRequests == InitStream /\ [][NextRequests]_vars

\* The store under ingests, queries and close().
\* Cursors and limits a caller passes: none, in range, zero and negative.
QueryInbound ==
    {InboundMessage("telegram", "c1", "private", "hi"),
     InboundMessage("telegram", "c2", NULL, "hi")}

QueryOutbound == {OutboundRequest("telegram", "c1", "yo")}

TimelineQueries ==
    {TimelineQuery(kind, "telegram", "c1", after, before, limit) :
        kind \in {"timeline", "unified"},
        after \in {<<>>, <<1>>},
        before \in {<<>>, <<3>>},
        limit \in {<<>>, <<-1>>, <<0>>, <<2>>}}

NextStore ==
    \/ \E body \in QueryInbound : PostMessages(body)
    \/ \E body \in QueryOutbound : PostResponses(body)
    \/ TxnInsert
    \/ TxnUpsert
    \/ TxnCommit
    \/ EmitMessageNew
    \/ Return
    \/ \E q \in TimelineQueries : GetTimeline(q)
    \/ StoreClose

SpecStore == InitStream /\ [][NextStore]_vars

\* The store and the service under ingests of both directions for one
\* conversation whose chat type changes, failing transactions, close() and a
\* reopen of the same file.
ConversationInbound ==
    {InboundMessage("telegram", "c1", "private", "hi"),
     InboundMessage("telegram", "c1", "group", "hi"),
     [InboundMessage("telegram", "c1", NULL, "hi")
          EXCEPT !.senderName = "Bob"]}

ConversationOutbound ==
    {OutboundRequest("telegram", "c1", "yo"),
     OutboundRequest("telegram", "c2", "yo")}

NextConversations ==
    \/ \E body \in ConversationInbound : PostMessages(body)
    \/ \E body \in ConversationOutbound : PostResponses(body)
    \/ TxnInsert
    \/ TxnUpsert
    \/ TxnCommit
    \/ TxnFail
    \/ EmitMessageNew
    \/ Return
    \/ StoreClose
    \/ StoreInit

SpecConversations == InitStream /\ [][NextConversations]_vars

\* validateInbound on its own, over the bodies POST /api/messages hands to
\* ingestMessage: every required field a string, empty, missing or a number.
FieldValues == {"x", "", NULL, JsNumber(5)}

ValidateBodies ==
    {[BaseInbound EXCEPT !.platform = a, !.platformMessageId = b,
                         !.platformChatId = c, !.senderName = d,
                         !.senderId = e, !.timestamp = ts, !.text = text] :
        a \in FieldValues, b \in FieldValues, c \in FieldValues,
        d \in FieldValues, e \in FieldValues,
        ts \in {<<>>, <<0>>, <<1700>>}, text \in {NULL, "hi"}}

InitValidate ==
    /\ InitHub
    /\ InitClient
    /\ InitJson
    /\ InitBot
    /\ acsConfig = FALSE
    /\ arg \in ValidateBodies
    /\ applied = FALSE
    /\ result = <<>>

ApplyValidateInbound ==
    /\ ~applied
    /\ applied' = TRUE
    /\ result' = validateInbound(arg)
    /\ UNCHANGED arg
    /\ UNCHANGED <<hubVars, wsVars, histVars, procVars, reqVars, storeVars,
                   jsonVars, botVars, linkVars, clientVars>>

NextValidate == ApplyValidateInbound

SpecValidate == InitValidate /\ [][NextValidate]_vars

\* splitMessage on its own, over every text of up to MaxTextLen UTF-16 code
\* units that are a letter, a newline, a high or a low surrogate, and every
\* cap from 1 to MaxCap.
CodeUnits == {"a", "\n", "H", "L"}

Texts == UNION {[1..n -> CodeUnits] : n \in 0..MaxTextLen}

SplitInputs == [text : Texts, maxLength : 1..MaxCap]

InitSplit ==
    /\ InitHub
    /\ InitClient
    /\ InitJson
    /\ InitBot
    /\ acsConfig = FALSE
    /\ arg \in SplitInputs
    /\ applied = FALSE
    /\ result = <<>>

ApplySplitMessage ==
    /\ ~applied
    /\ applied' = TRUE
    /\ result' = splitMessage(arg.text, arg.maxLength)
    /\ UNCHANGED arg
    /\ UNCHANGED <<hubVars, wsVars, histVars, procVars, reqVars, storeVars,
                   jsonVars, botVars, linkVars, clientVars>>

NextSplit == ApplySplitMessage

SpecSplit == InitSplit /\ [][NextSplit]_vars

\* The return leg end to end: the hub records entries while the plugin's
\* stream socket connects, drops and reconnects.
ReturnLegPost ==
    /\ Len(emitted) < MaxBroadcasts
    /\ \/ PostMessages(InboundMessage("telegram", "c1", "private", "hi"))
       \/ PostResponses(OutboundRequest("telegram", "c1", "yo"))

NextReturnLeg ==
    \/ ReturnLegPost
    \/ TxnInsert
    \/ TxnUpsert
    \/ TxnCommit
    \/ EmitMessageNew
    \/ Return
    \/ PluginStart
    \/ \E s \in SockIds : Handshake(s)
    \/ \E s \in SockIds : PushArrives(s)
    \/ \E s \in SockIds : WsLinkFail(s)
    \/ \E s \in SockIds : PluginSockClose(s)
    \/ \E s \in SockIds : HubSockClose(s)
    \/ TimeAdvance
    \/ \E t \in timers : TimerFire(t)
    \/ \E i \in 1..Len(deliveries), ok \in BOOLEAN : SendSettle(i, ok)

SpecReturnLeg == InitStream /\ [][NextReturnLeg]_vars

\* The hub with stream clients, receiving a termination signal at any
\* moment between two handlers.
NextShutdown ==
    \/ NextStream
    \/ Shutdown
    \/ ServerClosed

SpecShutdown == InitStream /\ [][NextShutdown]_vars

\* The hub with the trigger configured and one stream client that sends
\* requests, receiving a termination signal at any moment between two
\* handlers.
InitDrain ==
    /\ InitHub
    /\ InitClient
    /\ InitJson
    /\ InitBot
    /\ InitFn
    /\ acsConfig = TRUE

DrainFrames == {WsFrame(TRUE, FALSE, "health")}

NextDrain ==
    \/ RequestsPost
    \/ TxnInsert
    \/ TxnUpsert
    \/ TxnCommit
    \/ EmitMessageNew
    \/ Return
    \/ \E id \in inflight, outcome \in TriggerOutcomes :
           TriggerSettle(id, outcome)
    \/ WsConnect(Lowest(Conns))
    \/ WsCloseStart(Lowest(Conns))
    \/ WsCloseEvent(Lowest(Conns))
    \/ \E raw \in DrainFrames : WsRequest(Lowest(Conns), raw)
    \/ Shutdown
    \/ ServerClosed

SpecDrain == InitDrain /\ [][NextDrain]_vars

\* ------------------------------------------------------------------------
\* ingestTransaction of the JSON-file store, call by call
\* ------------------------------------------------------------------------

\* ingestTransaction(entryData, label) up to the return of
\* insertTimelineEntry: the record is pushed and persist() writes the file.
\* When the write throws the exception leaves ingestTransaction and the
\* record stays in this.state.
JsonInsert(entryData, label, ok) ==
    /\ jsonPc = "idle"
    /\ Len(jsonState.timeline) < MaxIngests
    /\ jsonState' = jsonInsertTimelineEntry(jsonState, entryData)
    /\ jsonFile' = persist(jsonFile, jsonState', ok)
    /\ IF ok
       THEN /\ jsonPc' = "inserted"
            /\ jsonCall' = [route |-> "ingest", entryData |-> entryData,
                            label |-> label, id |-> jsonState'.seq]
       ELSE UNCHANGED <<jsonPc, jsonCall>>
    /\ UNCHANGED <<hubVars, wsVars, histVars, procVars, reqVars, storeVars,
                   fnVars, botVars, linkVars, clientVars>>

\* The upsertConversation call of ingestTransaction with its persist();
\* ingestTransaction returns the entry or, when the write throws, the
\* exception leaves it.
JsonUpsert(ok) ==
    /\ jsonPc = "inserted"
    /\ jsonState' = jsonUpsertConversation(jsonState,
                         jsonCall.entryData.platform,
                         jsonCall.entryData.platformChatId, jsonCall.label,
                         jsonCall.entryData.platformChatType)
    /\ jsonFile' = persist(jsonFile, jsonState', ok)
    /\ jsonPc' = "idle"
    /\ jsonCall' = NoJsonCall
    /\ UNCHANGED <<hubVars, wsVars, histVars, procVars, reqVars, storeVars,
                   fnVars, botVars, linkVars, clientVars>>

\* The process dies and is started again on the same file: init() reads the
\* file into this.state.
JsonRestart ==
    /\ jsonState' = jsonFile
    /\ jsonPc' = "idle"
    /\ jsonCall' = NoJsonCall
    /\ UNCHANGED jsonFile
    /\ UNCHANGED <<hubVars, wsVars, histVars, procVars, reqVars, storeVars,
                   fnVars, botVars, linkVars, clientVars>>

\* Entries the service hands to ingestTransaction, with their labels.
JsonEntries ==
    {<<inboundEntryData(b), b.senderName>> : b \in QueryInbound}
        \cup {<<outboundEntryData(b, 1), "System">> : b \in QueryOutbound}

NextJson ==
    \/ \E e \in JsonEntries, ok \in BOOLEAN : JsonInsert(e[1], e[2], ok)
    \/ \E ok \in BOOLEAN : JsonUpsert(ok)
    \/ JsonRestart

SpecJson == Init /\ [][NextJson]_vars

\* The HTTP API with and without the trigger configured: inbound bodies
\* with a text, with an empty text and without one.
HttpInbound ==
    {InboundMessage("telegram", "c1", "private", "hi"),
     InboundMessage("telegram", "c1", "private", ""),
     InboundMessage("telegram", "c1", "private", NULL)}

HttpOutbound == {OutboundRequest("telegram", "c1", "yo")}

InitHttp ==
    /\ InitHub
    /\ InitClient
    /\ InitJson
    /\ InitBot
    /\ InitFn
    /\ acsConfig \in BOOLEAN

NextHttp ==
    \/ \E body \in HttpInbound : PostMessages(body)
    \/ \E body \in HttpOutbound : PostResponses(body)
    \/ TxnInsert
    \/ TxnUpsert
    \/ TxnCommit
    \/ TxnFail
    \/ EmitMessageNew
    \/ Return
    \/ \E id \in inflight, outcome \in TriggerOutcomes :
           TriggerSettle(id, outcome)

SpecHttp == InitHttp /\ [][NextHttp]_vars

\* ------------------------------------------------------------------------
\* The bot's 'message' handler with the hub
\* ------------------------------------------------------------------------

\* bot.on("message"): the handler of the next update starts, maps the
\* message and calls chatRouter.ingestMessage, whose fetch goes out.  The
\* polling loop hands over one update at a time.
BotUpdate(body) ==
    /\ botStage = "idle"
    /\ updates < MaxIngests
    /\ updates' = updates + 1
    /\ botBody' = body
    /\ botStage' = "fetching"
    /\ UNCHANGED <<reactions, forwardFailed, handlerEnded>>
    /\ UNCHANGED <<hubVars, wsVars, histVars, procVars, reqVars, storeVars,
                   fnVars, jsonVars, linkVars, clientVars>>

\* The fetch rejects (the hub cannot be reached): ingestMessage throws, the
\* handler's catch logs and the handler returns.
BotFetchRejects ==
    /\ botStage = "fetching"
    /\ forwardFailed' = forwardFailed \cup {updates}
    /\ handlerEnded' = handlerEnded + 1
    /\ botStage' = "idle"
    /\ botBody' = NoUpdate
    /\ UNCHANGED <<updates, reactions>>
    /\ UNCHANGED <<hubVars, wsVars, histVars, procVars, reqVars, storeVars,
                   fnVars, jsonVars, linkVars, clientVars>>

\* The request reaches the hub, whose POST /messages handler starts.
BotPost ==
    /\ botStage = "fetching"
    /\ ingestRoute(botBody)
    /\ botStage' = "handling"
    /\ UNCHANGED <<updates, botBody, reactions, forwardFailed, handlerEnded>>

\* The hub's answer arrives: with res.ok ingestMessage returns, the handler
\* logs and calls ctx.react; otherwise ingestMessage throws, the catch logs
\* and the handler returns.
BotResume ==
    /\ botStage = "handling"
    /\ up /\ pc = "idle" /\ awaiting = {}
    /\ IF resOk(lastResp.status)
       THEN /\ reactions' = Append(reactions, [update |-> updates,
                                               entry  |-> lastResp.id])
            /\ botStage' = "reacting"
            /\ UNCHANGED <<botBody, forwardFailed, handlerEnded>>
       ELSE /\ forwardFailed' = forwardFailed \cup {updates}
            /\ handlerEnded' = handlerEnded + 1
            /\ botStage' = "idle"
            /\ botBody' = NoUpdate
            /\ UNCHANGED reactions
    /\ UNCHANGED updates
    /\ UNCHANGED <<hubVars, wsVars, histVars, procVars, reqVars, storeVars,
                   fnVars, jsonVars, linkVars, clientVars>>

\* ctx.react settles: resolved, the handler returns; rejected, the same
\* catch logs and the handler returns.
BotReactSettle(ok) ==
    /\ botStage = "reacting"
    /\ handlerEnded' = handlerEnded + 1
    /\ botStage' = "idle"
    /\ botBody' = NoUpdate
    /\ UNCHANGED <<updates, reactions, forwardFailed>>
    /\ UNCHANGED <<hubVars, wsVars, histVars, procVars, reqVars, storeVars,
                   fnVars, jsonVars, linkVars, clientVars>>

\* The bot forwarding messages with and without a text to the hub, with and
\* without the trigger configured.
BotInbound ==
    {InboundMessage("telegram", "c1", "private", "hi"),
     InboundMessage("telegram", "c1", "private", NULL)}

NextBot ==
    \/ \E body \in BotInbound : BotUpdate(body)
    \/ BotFetchRejects
    \/ BotPost
    \/ TxnInsert
    \/ TxnUpsert
    \/ TxnCommit
    \/ TxnFail
    \/ EmitMessageNew
    \/ Return
    \/ \E id \in inflight, outcome \in TriggerOutcomes :
           TriggerSettle(id, outcome)
    \/ BotResume
    \/ \E ok \in BOOLEAN : BotReactSettle(ok)

SpecBot == InitHttp /\ [][NextBot]_vars

\* The HTTP adapter with a second subscriber of message:new whose handler
\* may throw.
NextListeners ==
    \/ \E body \in HttpInbound : PostMessages(body)
    \/ \E body \in HttpOutbound : PostResponses(body)
    \/ TxnInsert
    \/ TxnUpsert
    \/ TxnCommit
    \/ TxnFail
    \/ EmitMessageNew
    \/ EmitListenerThrows
    \/ Return
    \/ \E id \in inflight, outcome \in TriggerOutcomes :
           TriggerSettle(id, outcome)

SpecListeners == InitHttp /\ [][NextListeners]_vars

\* The plugin under the scheduling of the Node event loop: time passes while
\* a timer is pending and a due timer's callback runs.
SpecClientFair ==
    /\ SpecClient
    /\ WF_vars(TimeAdvance)
    /\ WF_vars(\E t \in timers : TimerFire(t))

\* ------------------------------------------------------------------------
\* Properties of the store (checked under Spec)
\* ------------------------------------------------------------------------

\* Indexes of the timeline rows of conversation key k.
RowsOf(d, k) ==
    {i \in 1..Len(d.timeline) :
        /\ d.timeline[i].platform = k[1]
        /\ d.timeline[i].platformChatId = k[2]}

\* Every conversation has as many timeline rows as its messageCount says,
\* and a key without a conversation row has none.
Paired(d) ==
    \A k \in Keys :
        LET conv == getConversation(d, k[1], k[2])
        IN  IF RowsOf(d, k) = {}
            THEN conv = {}
            ELSE /\ Cardinality(conv) = 1
                 /\ \A c \in conv : c.messageCount = Cardinality(RowsOf(d, k))

\* C1: the compound ingest is atomic, also under crash.  In the committed
\* file contents (what a reopen after a crash finds) and in the database as
\* any query outside of a running transaction sees it, a timeline row exists
\* if and only if the conversation of its key exists with a messageCount
\* that counts it: insert and upsert are never visible one without the other.
C1_AtomicIngest ==
    /\ Paired(durable)
    /\ (up /\ pc \in {"idle", "committed", "emitted"}) => Paired(db)

\* C1 witness: the daemon is back after a crash that hit an ingest between
\* its insert and its upsert, with an earlier ingest already committed.
C1_Witness ==
    /\ up /\ pc = "idle"
    /\ crashPc = "inserted"
    /\ Len(durable.timeline) >= 1
    /\ db = durable

\* C2: the ids assigned by n ingests on a fresh store are exactly 1, 2, ...,
\* n in the order the insertions completed, whatever the mix of directions
\* and conversations, failed calls and restarts in between: no id is
\* skipped or reused, and the committed rows carry these ids in that order.
C2_MonotonicIds ==
    /\ \A i \in 1..Len(assigned) : assigned[i] = i
    /\ Len(durable.timeline) = Len(assigned)
    /\ \A i \in 1..Len(durable.timeline) : durable.timeline[i].id = i

\* C2 witness: MaxIngests ingests of both directions and two conversations
\* have completed, around a crash.
C2_Witness ==
    /\ Len(assigned) = MaxIngests
    /\ crashes >= 1
    /\ \E i, j \in 1..Len(durable.timeline) :
          /\ durable.timeline[i].direction = "in"
          /\ durable.timeline[j].direction = "out"
          /\ durable.timeline[i].platformChatId
                 # durable.timeline[j].platformChatId

\* C3: after k successful ingests for one (platform, platformChatId), of
\* either direction and however ingests of other conversations interleave,
\* getConversation for the key reports messageCount = k (and no
\* conversation when k = 0).
C3_ConversationCounting ==
    \A k \in Keys :
        LET conv == getConversation(durable, k[1], k[2])
        IN  IF okCount[k] = 0
            THEN conv = {}
            ELSE /\ conv # {}
                 /\ \A c \in conv : c.messageCount = okCount[k]

\* C3 witness: one conversation has two ingests, one of each direction,
\* and another conversation has one.
C3_Witness ==
    \E k, other \in Keys :
        /\ k # other
        /\ okCount[k] = 2
        /\ okCount[other] = 1
        /\ \E c \in getConversation(durable, k[1], k[2]) : c.messageCount = 2
        /\ {durable.timeline[i].direction : i \in RowsOf(durable, k)}
               = {"in", "out"}

NewMessage(entry) == [type |-> "new_message", entry |-> entry]

\* The frames of the emissions a..b, in emission order.
FramesOfEmissions(a, b) ==
    [i \in 1..(b - a + 1) |-> NewMessage(emitted[a + i - 1])]

\* C4: every successful ingestMessage or recordResponse results in exactly
\* one new_message frame with that entry being sent to each client whose
\* socket is open at emission time.  Right after an emission every client
\* that was open has exactly one frame of the entry, and what has been sent
\* to an open client is a gapless, duplicate-free run of the emissions up
\* to the latest one, whatever other clients did in between.
C4_FanOutComplete ==
    /\ pc = "emitted" =>
          \A c \in lastOpen :
              Cardinality({j \in 1..Len(sent[c]) :
                              sent[c][j] = NewMessage(CallEntry)}) = 1
    /\ \A c \in Conns :
          wsState[c] = "open" =>
              \E a \in 1..(Len(emitted) + 1) :
                  sent[c] = FramesOfEmissions(a, Len(emitted))

\* C4 witness: a second emission has just gone to a client that connected
\* after the first one, while an earlier client is closing.
C4_Witness ==
    /\ pc = "emitted"
    /\ Len(emitted) = 2
    /\ \E c \in lastOpen : Len(sent[c]) = 1
    /\ \E c \in Conns : wsState[c] = "closing" /\ Len(sent[c]) = 1

\* C6: frames reach a client in emission order and, within a conversation,
\* emissions are in id order: of two entries of one conversation a client
\* receives the one with the lower id first.
C6_OrderPerClient ==
    /\ \A i, j \in 1..Len(emitted) :
          (/\ i < j
           /\ emitted[i].platform = emitted[j].platform
           /\ emitted[i].platformChatId = emitted[j].platformChatId)
              => emitted[i].id < emitted[j].id
    /\ \A c \in Conns : \A i, j \in 1..Len(got[c]) :
          i < j =>
              /\ \E m, n \in 1..Len(emitted) :
                    /\ m < n
                    /\ got[c][i] = NewMessage(emitted[m])
                    /\ got[c][j] = NewMessage(emitted[n])
              /\ got[c][i].entry.id < got[c][j].entry.id

\* C6 witness: a client has received two frames of one conversation.
C6_Witness ==
    \E c \in Conns :
        /\ Len(got[c]) = 2
        /\ got[c][1].entry.platformChatId = got[c][2].entry.platformChatId
        /\ got[c][1].entry.direction # got[c][2].entry.direction

\* C7: a failing send to one client does not affect the others.  Right
\* after an emission every client that was open with a working transport
\* has received the frame, and a client that stays open and working has
\* received every emission since it connected.
C7_FailingSendIsolated ==
    /\ pc = "emitted" =>
          \A c \in lastHealthy :
              /\ Len(got[c]) >= 1
              /\ got[c][Len(got[c])] = NewMessage(CallEntry)
    /\ \A c \in Conns :
          (wsState[c] = "open" /\ linkUp[c]) =>
              \E a \in 1..(Len(emitted) + 1) :
                  got[c] = FramesOfEmissions(a, Len(emitted))

\* C7 witness: an emission found the transport of an earlier client of
\* wss.clients broken, and a later client received the frame.
C7_Witness ==
    /\ pc = "emitted"
    /\ \E i, j \in 1..Len(wssClients) :
          /\ i < j
          /\ wssClients[i] \in lastOpen \ lastHealthy
          /\ wssClients[j] \in lastHealthy
          /\ Len(sent[wssClients[i]]) > Len(got[wssClients[i]])
          /\ got[wssClients[j]][Len(got[wssClients[j]])]
                 = NewMessage(CallEntry)

\* ------------------------------------------------------------------------
\* Properties of the HTTP API (checked under SpecHttp)
\* ------------------------------------------------------------------------

\* C10: with the trigger configured the 201 to POST /api/messages is sent
\* only after the trigger invocation for the entry has completed or failed.
\* No answered entry has its trigger fetch in flight, and every answered
\* entry the trigger was invoked for has a settled fetch.
C10_ResponseAfterTrigger ==
    /\ responded \cap inflight = {}
    /\ \A id \in responded :
          (/\ acsConfig
           /\ id \in 1..Len(durable.timeline)
           /\ triggerInvoked(durable.timeline[id]))
              => \E o \in TriggerOutcomes : <<id, o>> \in settled

\* C10 witness: an entry whose trigger failed on the network was answered
\* while the answer to a later entry is still held back.
C10_Witness ==
    /\ acsConfig
    /\ \E id \in responded : <<id, "network">> \in settled
    /\ \E id \in awaiting : id \in inflight /\ id \notin responded

\* ------------------------------------------------------------------------
\* Properties of the plugin's stream client (checked under SpecClient and
\* SpecClientFair)
\* ------------------------------------------------------------------------

\* C8: after disconnect() the client does not reconnect.  Once the flag is
\* set it stays set, no reconnect timer is pending (one that was pending
\* was cancelled, and the close event of the socket being closed schedules
\* none) and no socket starts connecting.
C8_NoReconnectAfterDisconnect ==
    [][/\ intentionalClose => intentionalClose'
       /\ intentionalClose' =>
             /\ timers' = {}
             /\ \A s \in SockIds :
                   sock'[s] = "connecting" => sock[s] = "connecting"]_vars

\* C8 witness: disconnect() has cancelled a pending reconnect timer.
C8_Witness ==
    /\ intentionalClose
    /\ clearedPending
    /\ timers = {}
    /\ \A s \in SockIds : sock[s] \in {"none", "closed"}

\* The client is down: started, not disconnected, without a live socket.
Down ==
    /\ started
    /\ ~intentionalClose
    /\ \A s \in SockIds : sock[s] \in {"none", "closed"}

\* C9: whenever a socket closes with the flag unset (a drop, or a failed
\* attempt) a reconnect is scheduled 3 seconds later, and the client keeps
\* retrying.  The close step leaves this.reconnectTimer pending with the
\* full delay, a timer fires only after exactly that delay, and a client
\* that is down connects again unless it is disconnected first.
C9_ReconnectScheduled ==
    /\ [][(/\ ~intentionalClose
           /\ \E s \in SockIds : sock[s] # "closed" /\ sock'[s] = "closed")
             => \E t \in timers' :
                   /\ t.id = reconnectTimer'
                   /\ t.remaining = ReconnectDelayMs
                   /\ t.age = 0]_vars
    /\ [](firedAge \in {-1, ReconnectDelayMs})
    /\ Down ~> ((\E s \in SockIds : sock[s] = "connecting")
                   \/ intentionalClose)

\* C9 witness: after a drop and a failed attempt the client is connected
\* again, the reconnect timer having fired.
C9_Witness ==
    /\ ~intentionalClose
    /\ firedAge = ReconnectDelayMs
    /\ \E s \in SockIds : sock[s] = "open"

\* The HTTP API under the scheduling of the Node event loop: a service call
\* that has started runs to its end.  Nothing obliges the trigger endpoint
\* to answer.
SpecHttpFair ==
    /\ SpecHttp
    /\ WF_vars(TxnInsert)
    /\ WF_vars(TxnUpsert)
    /\ WF_vars(TxnCommit)
    /\ WF_vars(EmitMessageNew)
    /\ WF_vars(Return)

\* ------------------------------------------------------------------------
\* Properties of the external trigger (checked under SpecHttp and
\* SpecHttpFair)
\* ------------------------------------------------------------------------

\* C11: the trigger invocation is bounded by a caller-side timeout, so
\* every POST /api/messages whose ingest succeeded eventually receives its
\* response, also when the trigger endpoint never answers: a response that
\* is held back for the trigger is eventually sent.
C11_TriggerBounded ==
    \A id \in 1..MaxIngests : (id \in awaiting) ~> (id \in responded)

\* C12: triggerAcsJob never throws and resolves to a boolean, false after a
\* non-2xx answer, a network failure and a parse failure; so a trigger
\* failure never turns a successful ingest into a non-201 response: every
\* entry whose service call returned is answered 201 or still held back,
\* and every entry whose fetch has ended is answered 201.
C12_TriggerNeverThrows ==
    /\ \A s \in settled :
          /\ triggerAcsJob(s[2]) \in {"true", "false"}
          /\ s[2] # "ok" => triggerAcsJob(s[2]) = "false"
          /\ s[1] \in responded
    /\ \A id \in returned : id \in responded \cup awaiting

\* C12 witness: the fetches of three entries have ended with a non-2xx
\* answer, a network failure and a parse failure, and all were answered.
C12_Witness ==
    /\ acsConfig
    /\ \A o \in {"non2xx", "network", "parse"} :
          \E id \in responded : <<id, o>> \in settled
    /\ lastResp.status = 201

\* The trigger requests sent for entry `id`.
PostsFor(id) == {i \in 1..Len(posts) : posts[i].id = id}

\* C13: no trigger request is ever sent for an outbound entry nor for an
\* inbound entry whose text is null: every request sent, answered or not,
\* is for a committed inbound entry with a text.
C13_TriggerGating ==
    /\ \A i \in 1..Len(posts) :
          /\ posts[i].id \in 1..Len(durable.timeline)
          /\ durable.timeline[posts[i].id].direction = "in"
          /\ durable.timeline[posts[i].id].text # NULL
    /\ inflight \cup {s[1] : s \in settled} = {posts[i].id : i \in 1..Len(posts)}

\* C13 witness: with the trigger configured an outbound response and an
\* inbound message without text were answered and no request was sent for
\* them, while one was sent for an inbound message with a text.
C13_Witness ==
    /\ acsConfig
    /\ Len(posts) = 1
    /\ \E i, j \in responded :
          /\ durable.timeline[i].direction = "out"
          /\ durable.timeline[j].direction = "in"
          /\ durable.timeline[j].text = NULL
          /\ PostsFor(i) = {} /\ PostsFor(j) = {}

\* C14 as stated: with the trigger configured, each successfully ingested
\* entry with direction in and a text that is not null causes exactly one
\* trigger POST to <acsBaseUrl>/api/jobs/<jobName>/trigger.
C14_OnePostPerNonNullText ==
    \A id \in returned :
        (/\ acsConfig
         /\ durable.timeline[id].direction = "in"
         /\ durable.timeline[id].text # NULL)
            => /\ Cardinality(PostsFor(id)) = 1
               /\ \A i \in PostsFor(id) :
                     posts[i].url = "http://127.0.0.1:8377/api/jobs/agent/trigger"

\* C14 as amended: with the trigger configured, each successfully ingested
\* entry with direction in and a text that is neither null nor empty causes
\* exactly one trigger POST to <acsBaseUrl>/api/jobs/<jobName>/trigger.
C14_OnePostPerText ==
    \A id \in returned :
        (/\ acsConfig
         /\ durable.timeline[id].direction = "in"
         /\ durable.timeline[id].text # NULL
         /\ durable.timeline[id].text # "")
            => /\ Cardinality(PostsFor(id)) = 1
               /\ \A i \in PostsFor(id) :
                     posts[i].url = "http://127.0.0.1:8377/api/jobs/agent/trigger"

\* C14 witness: two inbound messages with a text have each caused one
\* request, and an inbound message with an empty text has caused none.
C14_Witness ==
    /\ acsConfig
    /\ Len(posts) = 2
    /\ \E i, j, k \in returned :
          /\ i # j
          /\ PostsFor(i) # {} /\ PostsFor(j) # {}
          /\ durable.timeline[k].direction = "in"
          /\ durable.timeline[k].text = ""
          /\ PostsFor(k) = {}

\* C15 as stated, in finite form: once the signal handler has run the
\* server accepts no new connection and no stream client is left open, and
\* the process exits with code 0, the store closed, whatever the number of
\* stream clients connected when the signal arrived.
C15_ShutdownClosesClients ==
    /\ ~listening =>
          \A c \in Conns : wsState[c] # "open"
    /\ exitCode # <<>> => exitCode = <<0>> /\ ~storeOpen

\* The sendMessage calls issued for push n, in the order they were issued.
CallsOf(n) == SelectSeq(tgCalls, LAMBDA c : c.push = n)

C17_SendFailureSwallowed ==
    /\ [][failed' # failed =>
              /\ sock' = sock
              /\ ws' = ws
              /\ intentionalClose' = intentionalClose
              /\ timers' = timers
              /\ reconnectTimer' = reconnectTimer]_vars
    /\ [](\A n \in 1..Len(received) :
              (/\ \E f \in failed : f < n
               /\ handleMessageDelivers(received[n]))
                  => Len(CallsOf(n)) > 0)

\* C17 witness: the delivery of the first push failed, the socket is still
\* open, and the second push, received after the failure, was sent and
\* accepted by the platform.
C17_Witness ==
    /\ 1 \in failed
    /\ ws # 0 /\ sock[ws] = "open"
    /\ Len(CallsOf(1)) = 1
    /\ <<2, 1>> \in done

\* C18: within one delivery the chunks are sent in chunk order, each chunk
\* once, and the send of chunk i + 1 is issued only after the send of chunk
\* i was fulfilled.
C18_ChunksSequential ==
    \A k \in 1..Len(tgCalls) :
        LET c == tgCalls[k]
        IN  /\ c.idx > 1 => <<c.push, c.idx - 1>> \in done
            /\ \A j \in 1..(k - 1) :
                  tgCalls[j].push = c.push => tgCalls[j].idx < c.idx
            /\ c.text = DeliveryChunks[received[c.push]][c.idx]

\* C18 witness: a text of three chunks has been delivered whole while
\* another delivery was running.
C18_Witness ==
    \E n \in 1..Len(received) :
        /\ Len(CallsOf(n)) = 3
        /\ <<n, 3>> \in done
        /\ \E m \in 1..Len(received) : m # n /\ Len(CallsOf(m)) = 2
        /\ \E k \in 1..(Len(tgCalls) - 1) :
              tgCalls[k].push = n /\ tgCalls[k + 1].push # n

\* C19 as stated, for the two POST routes: 400 is the answer to a
\* validation failure only, carrying the validation message; any other
\* failure while handling the request is answered 500 with "Internal server
\* error".
C19_ErrorMapping ==
    /\ lastResp.status = 400 =>
          lastResp.error \in {"ingestMessage: platform is required",
                              "ingestMessage: platformMessageId is required",
                              "ingestMessage: platformChatId is required",
                              "ingestMessage: senderName is required",
                              "ingestMessage: senderId is required",
                              "ingestMessage: timestamp is required",
                              "recordResponse: platform is required",
                              "recordResponse: platformChatId is required",
                              "recordResponse: text is required"}
    /\ lastResp.status \notin {0, 201, 400} =>
          lastResp.status = 500 /\ lastResp.error = "Internal server error"

\* The frames of requests received on connection c, in order of arrival.
ReqsOf(c) == SelectSeq(reqs, LAMBDA r : r.conn = c)

\* The replies and the pushes handed to send() on connection c.
Replies(c) == SelectSeq(sent[c], LAMBDA f : f.type # "new_message")

Pushes(c) == SelectSeq(sent[c], LAMBDA f : f.type = "new_message")

\* C20: a malformed-JSON frame or a frame with an unknown request type is
\* answered with one error frame on the connection it came from, the
\* connection stays open, and requests and pushes after it are served: each
\* frame received on a connection has exactly one reply, in order (an error
\* for malformed JSON and for an unknown type, a response for a health
\* request), the pushes sent to an open connection remain the gapless run
\* of the emissions up to the latest, and a step that sends a reply changes
\* no connection's state and sends nothing on any other connection.
C20_ErrorReplyKeepsConnection ==
    /\ [](\A c \in Conns :
            wsState[c] = "open" =>
                /\ Len(Replies(c)) = Len(ReqsOf(c))
                /\ \A i \in 1..Len(ReqsOf(c)) :
                      LET raw == ReqsOf(c)[i].raw
                      IN  /\ ~raw.json =>
                                Replies(c)[i] = [type    |-> "error",
                                                 message |-> "malformed JSON"]
                          /\ (raw.json /\ raw.type = "foobar") =>
                                Replies(c)[i] =
                                    [type    |-> "error",
                                     message |-> "unknown request type: foobar"]
                          /\ raw.type = "health" =>
                                Replies(c)[i].type = "response"
                /\ \E a \in 1..(Len(emitted) + 1) :
                      Pushes(c) = FramesOfEmissions(a, Len(emitted)))
    /\ [][reqs' # reqs =>
              /\ wsState' = wsState
              /\ wssClients' = wssClients
              /\ \A c \in Conns :
                    c # reqs'[Len(reqs')].conn => sent'[c] = sent[c]]_vars

\* C20 witness: a connection that sent a malformed frame and then a frame of
\* an unknown type is open, and after the two error frames it was sent a
\* push and the response to a health request.
C20_Witness ==
    \E c \in Conns :
        /\ wsState[c] = "open"
        /\ Len(sent[c]) = 4
        /\ sent[c][1] = [type |-> "error", message |-> "malformed JSON"]
        /\ sent[c][2] = [type    |-> "error",
                         message |-> "unknown request type: foobar"]
        /\ sent[c][3].type = "new_message"
        /\ sent[c][4].type = "response"

\* The entries of database d that match timeline query q.
Matching(q, d) ==
    {r \in RowSet(d.timeline) :
        /\ q.kind = "timeline" =>
              /\ r.platform = q.platform
              /\ r.platformChatId = q.platformChatId
        /\ q.after # <<>> => r.id > q.after[1]
        /\ q.before # <<>> => r.id < q.before[1]}

\* C21 as stated: a getTimeline or getUnifiedTimeline call that returns
\* gives matching entries only, with id > after and id < before, in strictly
\* descending id order, never more than limit entries (50 when no limit is
\* given, none for a limit below 1) whatever the limit supplied, and when
\* more entries match, those with the highest ids.
C21_TimelinePagination ==
    [][(lastQuery' # lastQuery /\ ~lastQuery'.threw) =>
          LET q    == lastQuery'.q
              rows == lastQuery'.rows
              cap  == IF q.limit = <<>> THEN 50
                      ELSE IF q.limit[1] < 0 THEN 0
                      ELSE q.limit[1]
          IN  /\ \A i \in 1..Len(rows) : rows[i] \in Matching(q, db)
              /\ \A i, j \in 1..Len(rows) : i < j => rows[i].id > rows[j].id
              /\ Len(rows) <= cap
              /\ \A r \in Matching(q, db) \ RowSet(rows) :
                    /\ Len(rows) = cap
                    /\ \A i \in 1..Len(rows) : r.id < rows[i].id]_vars

\* The chat type and the label the entries of key k supplied, oldest first:
\* the committed rows keep what each ingest was given.
LastRow(d, k) ==
    d.timeline[CHOOSE i \in RowsOf(d, k) : \A j \in RowsOf(d, k) : j <= i]

TypedRowsOf(d, k) ==
    {i \in RowsOf(d, k) : d.timeline[i].platformChatType # NULL}

\* C22: the stored chat type of a conversation is the type of the latest
\* ingest for its key that supplied one, and null when none did: an ingest
\* with a null type (every recordResponse) leaves the stored type as it
\* was, an ingest with a type replaces it.
C22_ChatTypeKept ==
    \A c \in durable.conversations :
        LET k     == <<c.platform, c.platformChatId>>
            typed == TypedRowsOf(durable, k)
        IN  c.platformChatType =
                IF typed = {} THEN NULL
                ELSE durable.timeline[CHOOSE i \in typed :
                                         \A j \in typed : j <= i]
                         .platformChatType

\* C22 witness: a conversation created with type private, an inbound
\* message with type group that replaced it, then a response (null type)
\* that left group in place.
C22_Witness ==
    /\ pc = "idle"
    /\ Len(durable.timeline) = 3
    /\ durable.timeline[1].platformChatType = "private"
    /\ durable.timeline[2].platformChatType = "group"
    /\ durable.timeline[3].platformChatType = NULL
    /\ durable.timeline[3].direction = "out"
    /\ \A i \in 1..3 : durable.timeline[i].platformChatId = "c1"
    /\ \E c \in durable.conversations :
          c.platformChatId = "c1" /\ c.platformChatType = "group"

HasConversation(d, r) ==
    \E c \in d.conversations :
        c.platform = r.platform /\ c.platformChatId = r.platformChatId

\* C23: every timeline entry references an existing conversation, in the
\* committed contents and in what a reader outside a running transaction
\* sees; and the conversation is written by the transaction of the entry:
\* every commit adds exactly one entry together with the created or updated
\* conversation of that entry's key, and touches no other conversation.
C23_EntryHasConversation ==
    /\ [](/\ \A i \in 1..Len(durable.timeline) :
                HasConversation(durable, durable.timeline[i])
          /\ (up /\ pc \in {"idle", "committed", "emitted"}) =>
                \A i \in 1..Len(db.timeline) :
                    HasConversation(db, db.timeline[i]))
    /\ [][durable' # durable =>
            LET n == Len(durable'.timeline)
                r == durable'.timeline[n]
            IN  /\ n = Len(durable.timeline) + 1
                /\ \A i \in 1..(n - 1) :
                      durable'.timeline[i] = durable.timeline[i]
                /\ \E c \in durable'.conversations \ durable.conversations :
                      /\ c.platform = r.platform
                      /\ c.platformChatId = r.platformChatId
                      /\ durable'.conversations \ {c}
                             \subseteq durable.conversations]_vars

\* C23 witness: entries of two conversations are committed, each with its
\* conversation, and the transaction of a third ingest has just failed.
C23_Witness ==
    /\ up /\ pc = "idle"
    /\ lastResp.error = "SqliteError"
    /\ Len(durable.timeline) = 2
    /\ durable.timeline[1].platformChatId # durable.timeline[2].platformChatId
    /\ Cardinality(durable.conversations) = 2
    /\ db = durable

\* The entries of key k that database d has and database p has not.
AddedRowsOf(d, p, k) == {i \in RowsOf(d, k) : i > Len(p.timeline)}

ConversationKeys(d) ==
    {<<c.platform, c.platformChatId>> : c \in d.conversations}

\* C24: a reopen of the file finds every committed entry and conversation
\* unchanged, and later ingests continue from them: the entries the reopen
\* found stay as they were, every entry added since has an id greater than
\* all of theirs, and each conversation's messageCount is the count the
\* reopen found plus the entries added since for its key.
C24_PersistsAcrossReopen ==
    /\ [][(~storeOpen /\ storeOpen') =>
              /\ durable' = durable
              /\ db' = durable]_vars
    /\ [](persisted # <<>> =>
            LET p == persisted[1]
                n == Len(p.timeline)
            IN  /\ Len(durable.timeline) >= n
                /\ \A i \in 1..n : durable.timeline[i] = p.timeline[i]
                /\ \A i \in (n + 1)..Len(durable.timeline) :
                      \A j \in 1..n :
                          durable.timeline[i].id > p.timeline[j].id
                /\ ConversationKeys(p) \subseteq ConversationKeys(durable)
                /\ \A c \in durable.conversations :
                      LET k   == <<c.platform, c.platformChatId>>
                          was == getConversation(p, k[1], k[2])
                          new == Cardinality(AddedRowsOf(durable, p, k))
                      IN  IF was = {}
                          THEN c.messageCount = new
                          ELSE \A w \in was :
                                   c.messageCount = w.messageCount + new)

\* C24 witness: the store was closed with two entries of one conversation
\* committed and reopened, and a third entry of that conversation has been
\* committed since: it has id 3 and the conversation counts 3.
C24_Witness ==
    /\ up /\ pc = "idle" /\ storeOpen
    /\ persisted # <<>>
    /\ Len(persisted[1].timeline) = 2
    /\ Len(durable.timeline) = 3
    /\ durable.timeline[3].id = 3
    /\ \E c \in durable.conversations :
          /\ c.messageCount = 3
          /\ \E w \in persisted[1].conversations :
                /\ w.platformChatId = c.platformChatId
                /\ w.messageCount = 2

\* C25: once the store is closed every store operation throws.  A query on
\* the closed store throws the "not initialised" error and returns no row;
\* an ingest on it is answered with that error, opens no transaction and
\* changes neither the database nor the committed contents.
C25_ClosedStoreThrows ==
    /\ [](~lastQuery.open =>
              /\ lastQuery.threw
              /\ lastQuery.error = NotInitialised
              /\ lastQuery.rows = <<>>)
    /\ [](~storeOpen => pc = "idle")
    /\ [][(~storeOpen /\ ~storeOpen') =>
              /\ db' = db
              /\ durable' = durable
              /\ lastResp' # lastResp =>
                    /\ lastResp'.status = 400
                    /\ lastResp'.error = NotInitialised]_vars

\* C25 witness: entries are committed, the store is closed, and both a query
\* and an ingest made since have thrown.
C25_Witness ==
    /\ ~storeOpen
    /\ Len(durable.timeline) >= 1
    /\ lastQuery.q.kind = "unified"
    /\ ~lastQuery.open /\ lastQuery.threw
    /\ lastResp.status = 400 /\ lastResp.error = NotInitialised

\* C26: a conversation's label is the label of the most recent committed
\* entry of its key: the senderName of an inbound entry, "System" for an
\* outbound one.  So a response creates an unseen conversation with label
\* "System" and overwrites the label of an existing one.
C26_LabelIsLatest ==
    \A c \in durable.conversations :
        LET last == LastRow(durable, <<c.platform, c.platformChatId>>)
        IN  /\ c.label = last.senderName
            /\ last.direction = "out" => c.label = "System"
            /\ last.direction = "in" => c.label \in {"Alice", "Bob"}

\* C26 witness: a response created conversation c2 with label "System", and
\* conversation c1, created by Alice's message, had its label overwritten to
\* "System" by a response.
C26_Witness ==
    /\ pc = "idle"
    /\ Len(durable.timeline) = 3
    /\ \E c \in durable.conversations :
          /\ c.platformChatId = "c2" /\ c.label = "System"
          /\ c.messageCount = 1
    /\ \E c \in durable.conversations :
          /\ c.platformChatId = "c1" /\ c.label = "System"
          /\ c.messageCount = 2
    /\ \E i \in 1..3 :
          /\ durable.timeline[i].platformChatId = "c1"
          /\ durable.timeline[i].senderName = "Alice"

\* The committed outbound entries, oldest first, as indexes of the timeline.
OutRows(d) == {i \in 1..Len(d.timeline) : d.timeline[i].direction = "out"}

RouterId(n) == "router-" \o ToString(n)

\* C27 as stated: every recorded response carries router-N, the first
\* recorded response carries router-1, and no two carry the same N.
C27_FirstRecordedIsRouter1 ==
    /\ \A i \in OutRows(durable) :
          \E n \in 1..syntheticIdCounter :
              durable.timeline[i].platformMessageId = RouterId(n)
    /\ \A i \in OutRows(durable) :
          (\A j \in OutRows(durable) : i <= j) =>
              durable.timeline[i].platformMessageId = RouterId(1)
    /\ \A i, j \in OutRows(durable) :
          i # j => durable.timeline[i].platformMessageId
                       # durable.timeline[j].platformMessageId

\* C27 amended: on one service instance the counter changes only in
\* recordResponse, by one, after validation has passed; the call that takes
\* it from 0 mints router-1; every recorded response carries router-N with
\* 1 <= N <= counter, and N is strictly increasing in the order recorded.
C27_CounterMonotonic ==
    /\ [][syntheticIdCounter' # syntheticIdCounter =>
              /\ syntheticIdCounter' = syntheticIdCounter + 1
              /\ pc = "idle"
              /\ \/ /\ pc' = "begun"
                    /\ call'.route = "responses"
                    /\ call'.entryData.platformMessageId
                           = RouterId(syntheticIdCounter')
                    /\ syntheticIdCounter = 0 =>
                          call'.entryData.platformMessageId = RouterId(1)
                 \/ /\ pc' = "idle"
                    /\ ~storeOpen
                    /\ lastResp'.error = NotInitialised]_vars
    /\ [](\A i \in OutRows(durable) :
              \E n \in 1..syntheticIdCounter :
                  /\ durable.timeline[i].platformMessageId = RouterId(n)
                  /\ \A j \in OutRows(durable) :
                        j < i => \E m \in 1..(n - 1) :
                            durable.timeline[j].platformMessageId
                                = RouterId(m))

\* C27 witness: the first response's transaction failed after router-1 was
\* minted, and the first recorded response carries router-2.
C27_Witness ==
    /\ pc = "idle"
    /\ syntheticIdCounter = 2
    /\ Cardinality(OutRows(durable)) = 1
    /\ \A i \in OutRows(durable) :
          durable.timeline[i].platformMessageId = RouterId(2)

RequiredStrings ==
    {"platform", "platformMessageId", "platformChatId", "senderName",
     "senderId"}

NonEmptyString(x) == x \notin NonStrings /\ x # ""

FieldErrors ==
    {"ingestMessage: " \o f \o " is required" :
        f \in RequiredStrings \union {"timestamp"}}

\* C28: ingestMessage fails with a field-named error if and only if one of
\* platform, platformMessageId, platformChatId, senderName, senderId is not
\* a non-empty string or timestamp is null or absent; timestamp zero and an
\* absent text are accepted.
C28_ValidationIff ==
    applied =>
        LET invalid == \/ \E f \in RequiredStrings : ~NonEmptyString(arg[f])
                       \/ arg.timestamp = <<>>
        IN  /\ invalid <=> result \in FieldErrors
            /\ ~invalid <=> result = "ok"

\* A surrogate pair starts at code unit i of str.
PairAt(str, i) ==
    i >= 1 /\ i < Len(str) /\ str[i] = "H" /\ str[i + 1] = "L"

\* The length of str counted in code points.
CodePointCount(str) ==
    Len(str) - Cardinality({i \in 1..Len(str) : PairAt(str, i)})

RECURSIVE Concat(_)
Concat(chunks) ==
    IF Len(chunks) = 0 THEN <<>> ELSE Head(chunks) \o Concat(Tail(chunks))

\* The code-unit offsets in the text at which a chunk other than the last
\* one ends.
RECURSIVE Boundaries(_)
Boundaries(chunks) ==
    IF Len(chunks) <= 1 THEN {}
    ELSE LET front == SubSeq(chunks, 1, Len(chunks) - 1)
         IN  Boundaries(front) \union {Len(Concat(front))}

\* C29: for every text T and cap C >= 1 the chunks of splitMessage(T, C)
\* concatenate back to exactly T, every chunk is at most C code points long,
\* and no chunk ends between the two halves of a surrogate pair.
C29_ChunkingRoundTrip ==
    applied =>
        /\ Len(result) >= 1
        /\ Concat(result) = arg.text
        /\ \A i \in 1..Len(result) :
              CodePointCount(result[i]) <= arg.maxLength
        /\ \A b \in Boundaries(result) : ~PairAt(arg.text, b)

\* C29 witness: a text whose cap would fall inside a surrogate pair if it
\* were counted in code units: "a", the pair, "a" with cap 2 is split after
\* the pair.
C29_Witness ==
    /\ applied
    /\ arg.text = <<"a", "H", "L", "a">>
    /\ arg.maxLength = 2
    /\ result = << <<"a", "H", "L">>, <<"a">> >>

\* The number of code units that make up the first C code points of str.
WindowLength(str, C) ==
    IF CodePointCount(str) <= C THEN Len(str)
    ELSE CHOOSE u \in 0..Len(str) :
             /\ CodePointCount(Take(str, u)) = C
             /\ ~PairAt(str, u)

\* The zero-based positions p > 0 of the newlines within the first C code
\* points of str.
NewlinesInWindow(str, C) ==
    {p \in 1..(WindowLength(str, C) - 1) : str[p + 1] = "\n"}

\* C30 as stated: whenever a newline stands at a position p > 0 within the
\* first C code points of the text, the first chunk ends exactly at p + 1.
C30_EndsAfterANewline ==
    applied =>
        \A p \in NewlinesInWindow(arg.text, arg.maxLength) :
            result[1] = Take(arg.text, p + 1)

\* C30 amended: when the text is longer than C code points and newlines
\* stand at positions > 0 within its first C code points, the first chunk
\* ends immediately after the last of them.
C30_EndsAfterLastNewline ==
    (applied /\ CodePointCount(arg.text) > arg.maxLength) =>
        LET N == NewlinesInWindow(arg.text, arg.maxLength)
        IN  N # {} =>
                LET p == CHOOSE x \in N : \A y \in N : y <= x
                IN  /\ result[1] = Take(arg.text, p + 1)
                    /\ Len(result) >= 2

\* C30 witness: "a", newline, newline, "a" with cap 3: two newlines stand in
\* the window and the first chunk ends after the second.
C30_Witness ==
    /\ applied
    /\ arg.text = <<"a", "\n", "\n", "a">>
    /\ arg.maxLength = 3
    /\ result[1] = <<"a", "\n", "\n">>

\* The sockets of the client whose 'message' events still reach
\* handleMessage.
LiveSocks == {s \in SockIds : sock[s] \in {"connecting", "open"}}

\* C31: after any sequence of connect() and disconnect() calls and socket
\* events the client has at most one live socket and at most one pending
\* reconnect timer.
C31_SingleSocket ==
    /\ Cardinality(LiveSocks) <= 1
    /\ Cardinality(timers) <= 1

\* C32: entries are delivered in the order their pushes were received: no
\* chunk of a later push is sent before the last chunk of an earlier one.
C32_DeliveryOrder ==
    \A j, k \in 1..Len(tgCalls) :
        j < k => tgCalls[j].push <= tgCalls[k].push

\* The filter of the outbound-delivery adapter applied to a timeline entry.
Deliverable(e) ==
    e.direction = "out" /\ e.platform = "telegram" /\ e.text \notin {NULL, ""}

\* The ids of the entries for which a send to the platform was issued.
SentIds == {received[tgCalls[k].push].entry.id : k \in 1..Len(tgCalls)}

PushFrame(e) == [type |-> "new_message", entry |-> e]

\* The adapter is connected and nothing is on its way: no service call is
\* running, no reconnect is pending and every frame that reached the plugin
\* has been handled.
AdapterSettled ==
    /\ up /\ pc = "idle"
    /\ timers = {}
    /\ \A s \in SockIds : handled[s] >= Len(got[s])
    /\ \E s \in SockIds : sock[s] = "open" /\ wsState[s] = "open" /\ linkUp[s]

\* C33 as stated, on finite runs: once the adapter is connected and nothing
\* is on its way, every recorded out-direction telegram entry with a
\* non-empty text has been sent to the platform, whenever it was recorded.
C33_EveryEntryDelivered ==
    AdapterSettled =>
        \A i \in 1..Len(durable.timeline) :
            Deliverable(durable.timeline[i]) =>
                durable.timeline[i].id \in SentIds

\* C33 amended: the feed is live only.  An emission reaches exactly the
\* sockets that are open with a working transport at that moment; a push
\* that reaches the plugin has its send issued at once if and only if its
\* entry passes the filter; and nothing else ever puts a frame on a socket
\* or issues a send, so an entry recorded while the socket was down is never
\* delivered.
C33_LiveFeedOnly ==
    /\ [][emitted' # emitted =>
              \A s \in SockIds :
                  got'[s] = IF wsState[s] = "open" /\ linkUp[s]
                            THEN Append(got[s],
                                        PushFrame(emitted'[Len(emitted')]))
                            ELSE got[s]]_vars
    /\ [][\A s \in SockIds :
              handled'[s] = handled[s] + 1 =>
                  LET e == got[s][handled'[s]].entry
                  IN  tgCalls' =
                          IF Deliverable(e)
                          THEN Append(tgCalls,
                                      [push   |-> pushes',
                                       chatId |-> e.platformChatId,
                                       idx    |-> 1,
                                       text   |-> Units(e.text)])
                          ELSE tgCalls]_vars
    /\ [][/\ \A s \in SockIds :
                got'[s] # got[s] => (emitted' # emitted \/ got'[s] = <<>>)
          /\ tgCalls' # tgCalls =>
                \E s \in SockIds : handled'[s] = handled[s] + 1]_vars
    /\ [](SentIds \subseteq {durable.timeline[i].id :
                                i \in 1..Len(durable.timeline)})

\* C33 witness: the adapter is connected again and nothing is on its way;
\* the response recorded while its socket was down was not sent, the one
\* recorded after the reconnect was.
C33_Witness ==
    /\ AdapterSettled
    /\ firedAge = ReconnectDelayMs
    /\ Len(durable.timeline) = 2
    /\ Deliverable(durable.timeline[1]) /\ Deliverable(durable.timeline[2])
    /\ SentIds = {2}

\* ------------------------------------------------------------------------
\* Answers for committed entries (checked under SpecListeners)
\* ------------------------------------------------------------------------

Created(id) == [status |-> 201, error |-> "", id |-> id]

C36_FileAtomic == Paired(jsonFile)

\* ------------------------------------------------------------------------
\* Rejected calls (checked under Spec)
\* ------------------------------------------------------------------------

\* The step of a POST handler whose service call validation rejected: the
\* handler starts and ends in it, answering 400.
RejectedStep ==
    /\ up /\ up'
    /\ pc = "idle" /\ pc' = "idle"
    /\ lastResp'.status = 400

\* C37: a call rejected by validation adds no timeline row, changes no
\* conversation, emits no message:new and does not advance the synthetic-id
\* counter.
C37_RejectedNoEffect ==
    [][RejectedStep =>
          /\ lastResp'.error \in {validateInbound(b) : b \in StoreInbound}
                                  \cup {validateResponse(b) : b \in StoreOutbound}
          /\ lastResp'.error # "ok"
          /\ UNCHANGED <<db, durable, syntheticIdCounter, emitted, assigned,
                         okCount, sent, got>>]_vars

\* C37 witness: a response was recorded and answered, then a request without
\* text was rejected: one row, one emission, the counter at 1.
C37_Witness ==
    /\ up /\ pc = "idle"
    /\ lastResp.status = 400
    /\ lastResp.error = "recordResponse: text is required"
    /\ Len(durable.timeline) = 1 /\ Len(emitted) = 1
    /\ syntheticIdCounter = 1

\* ------------------------------------------------------------------------
\* Health counts (checked under Spec)
\* ------------------------------------------------------------------------

\* The sum of f[k] over the keys k of S.
RECURSIVE SumOver(_, _)
SumOver(f, S) ==
    IF S = {} THEN 0
    ELSE LET k == CHOOSE x \in S : TRUE
         IN  f[k] + SumOver(f, S \ {k})

\* messageCount of the conversation of each key, 0 without a conversation.
CountsOf(d) ==
    [k \in Keys |->
        LET conv == getConversation(d, k[1], k[2])
        IN  IF conv = {} THEN 0
            ELSE (CHOOSE c \in conv : TRUE).messageCount]

\* C38: whenever a caller can run healthCheck (between two handlers, also
\* after a failed ingest or a restart), messageCount is the number of
\* ingests committed so far and the sum of the conversations' messageCount,
\* and conversationCount is the number of keys ingested; the committed
\* ingests of a key never decrease and neither count, taken over the
\* committed contents, does.
C38_HealthCounts ==
    /\ []((up /\ pc = "idle") =>
            LET h == healthCheck(db)
            IN  /\ h.messageCount = SumOver(okCount, Keys)
                /\ h.messageCount = SumOver(CountsOf(db), Keys)
                /\ h.conversationCount
                       = Cardinality({k \in Keys : okCount[k] > 0})
                /\ \A c \in db.conversations :
                       <<c.platform, c.platformChatId>> \in Keys)
    /\ [][/\ \A k \in Keys : okCount'[k] >= okCount[k]
          /\ healthCheck(durable').messageCount
                 >= healthCheck(durable).messageCount
          /\ healthCheck(durable').conversationCount
                 >= healthCheck(durable).conversationCount]_vars

\* C38 witness: after a crash and a restart, three ingests in two
\* conversations are counted.
C38_Witness ==
    /\ up /\ pc = "idle" /\ crashes = 1
    /\ healthCheck(db).messageCount = 3
    /\ healthCheck(db).conversationCount = 2

\* ------------------------------------------------------------------------
\* Synthetic ids across restarts (checked under Spec)
\* ------------------------------------------------------------------------

\* The recorded responses that carry router-n.
Carrying(d, n) ==
    {i \in OutRows(d) : d.timeline[i].platformMessageId = RouterId(n)}

\* C39 as stated: no two recorded responses of a store share a synthetic
\* platformMessageId, those recorded before and after a restart of the
\* daemon on the same file included.
C39_UniqueAcrossRestart ==
    \A i, j \in OutRows(durable) :
        i # j => durable.timeline[i].platformMessageId
                     # durable.timeline[j].platformMessageId

\* C39 amended: the counter is 0 when the daemon starts, otherwise it only
\* grows by one; a response is written with router-N for the counter's
\* value N, so one service instance never writes the same N twice, and a
\* store holds an N at most once per instance that has run on it.
C39_UniquePerInstance ==
    /\ [][syntheticIdCounter' # syntheticIdCounter =>
              \/ syntheticIdCounter' = syntheticIdCounter + 1 /\ up /\ up'
              \/ syntheticIdCounter' = 0 /\ ~up /\ up']_vars
    /\ [][Len(db'.timeline) > Len(db.timeline) =>
              LET row == db'.timeline[Len(db'.timeline)]
              IN  row.direction = "out" =>
                      /\ row.platformMessageId = RouterId(syntheticIdCounter)
                      /\ syntheticIdCounter' = syntheticIdCounter
                      /\ syntheticIdCounter >= 1]_vars
    /\ [](\A n \in 1..MaxMinted :
              Cardinality(Carrying(durable, n)) <= crashes + 1)

\* C39 witness: the first instance recorded router-1 and router-2, the
\* instance started after the crash recorded router-1 again.
C39_Witness ==
    /\ up /\ pc = "idle" /\ crashes = 1
    /\ Len(durable.timeline) = 3
    /\ durable.timeline[1].platformMessageId = RouterId(1)
    /\ durable.timeline[2].platformMessageId = RouterId(2)
    /\ durable.timeline[3].platformMessageId = RouterId(1)

\* ------------------------------------------------------------------------
\* The thumbs-up reaction (checked under SpecBot)
\* ------------------------------------------------------------------------

\* C40: ctx.react is called for an update only when the hub has answered
\* that update's POST with 201: the entry answered is committed and is the
\* update's message, and when the trigger is configured and applies to it
\* its fetch has settled, whatever the outcome.  An update whose forwarding
\* failed gets no reaction, and every handler returns, so that the bot
\* takes the next update.
C40_ReactAfterSuccess ==
    /\ [][reactions' # reactions =>
              LET r == reactions'[Len(reactions')]
              IN  /\ reactions' = Append(reactions, r)
                  /\ r.update = updates
                  /\ up /\ pc = "idle" /\ awaiting = {}
                  /\ lastResp = Created(r.entry)
                  /\ r.entry \in responded
                  /\ \E i \in 1..Len(durable.timeline) :
                        /\ durable.timeline[i]
                               = TimelineRow(inboundEntryData(botBody),
                                             r.entry)
                        /\ (acsConfig /\ triggerInvoked(durable.timeline[i]))
                               => \E outcome \in TriggerOutcomes :
                                      <<r.entry, outcome>> \in settled]_vars
    /\ [](\A k \in 1..Len(reactions) :
              reactions[k].update \notin forwardFailed)
    /\ [](botStage = "idle" => handlerEnded = updates)
    /\ [][forwardFailed' # forwardFailed =>
              botStage' = "idle" /\ reactions' = reactions]_vars

\* C40 witness: the first update's forwarding failed with the hub's 400,
\* the second was answered 201 after the trigger had failed and got its
\* reaction, and its handler has returned.
C40_Witness ==
    /\ botStage = "idle" /\ updates = 2
    /\ forwardFailed = {1}
    /\ Len(reactions) = 1
    /\ reactions[1].update = 2
    /\ acsConfig
    /\ <<reactions[1].entry, "network">> \in settled
    /\ Len(durable.timeline) = 1

=============================================================================
